---- MODULE Spec2Model ----
(***************************************************************************)
(* A model of the less-oxide LESS compiler: the value pipeline of the      *)
(* evaluator (compute_value and the arithmetic it drives), selector        *)
(* combination, the scoped evaluator that flattens rulesets, at-rules and  *)
(* mixin expansions, and the import resolver.                              *)
(*                                                                         *)
(* Text is a sequence of one-character strings.  Numbers are exact         *)
(* rationals [n, d] (the source uses f64; binary rounding error is the one *)
(* thing the rationals leave out, the four-digit formatting is kept).      *)
(***************************************************************************)
EXTENDS Integers, Sequences, FiniteSets, TLC

\* ------------------------------------------------------------------------
\* Results (LessResult<T>)
\* ------------------------------------------------------------------------

Ok(v) == [ok |-> TRUE, val |-> v, err |-> "none"]

Err(e) == [ok |-> FALSE, val |-> <<>>, err |-> e]

\* ------------------------------------------------------------------------
\* Characters and text
\* ------------------------------------------------------------------------

Digits == <<"0", "1", "2", "3", "4", "5", "6", "7", "8", "9">>

is_whitespace(c) == c \in {" ", "\n", "\t"}

is_ascii_digit(c) == \E i \in 1..10 : Digits[i] = c

is_ascii_alphabetic(c) ==
    c \in {"a", "b", "c", "d", "e", "f", "g", "h", "i", "j", "k", "l", "m",
           "n", "o", "p", "q", "r", "s", "t", "u", "v", "w", "x", "y", "z"}

is_operator(c) == c \in {"+", "-", "*", "/"}

DigitVal(c) == (CHOOSE i \in 1..10 : Digits[i] = c) - 1

RECURSIVE trim_start(_)
trim_start(s) ==
    IF s = <<>> THEN <<>>
    ELSE IF is_whitespace(Head(s)) THEN trim_start(Tail(s)) ELSE s

RECURSIVE trim_end(_)
trim_end(s) ==
    IF s = <<>> THEN <<>>
    ELSE IF is_whitespace(s[Len(s)]) THEN trim_end(SubSeq(s, 1, Len(s) - 1))
         ELSE s

trim(s) == trim_end(trim_start(s))

ends_with(s, p) ==
    Len(p) <= Len(s) /\ SubSeq(s, Len(s) - Len(p) + 1, Len(s)) = p

contains(s, p) ==
    \E i \in 1..(Len(s) - Len(p) + 1) : SubSeq(s, i, i + Len(p) - 1) = p

starts_with(s, p) == Len(p) <= Len(s) /\ SubSeq(s, 1, Len(p)) = p

\* how often the text p occurs in s
RECURSIVE occurrences(_, _)
occurrences(s, p) ==
    IF Len(s) < Len(p) THEN 0
    ELSE (IF SubSeq(s, 1, Len(p)) = p THEN 1 ELSE 0) + occurrences(Tail(s), p)

RECURSIVE Flatten(_)
Flatten(ss) == IF ss = <<>> THEN <<>> ELSE Head(ss) \o Flatten(Tail(ss))

\* src/utils.rs collapse_whitespace: runs of whitespace become one space,
\* then the result is trimmed.
RECURSIVE collapse_from(_, _)
collapse_from(s, last_was_space) ==
    IF s = <<>> THEN <<>>
    ELSE IF is_whitespace(Head(s))
         THEN (IF last_was_space THEN <<>> ELSE <<" ">>)
              \o collapse_from(Tail(s), TRUE)
         ELSE <<Head(s)>> \o collapse_from(Tail(s), FALSE)

collapse_whitespace(s) == trim(collapse_from(s, FALSE))

\* ------------------------------------------------------------------------
\* Rational numbers standing for f64 values
\* ------------------------------------------------------------------------

Abs(x) == IF x < 0 THEN -x ELSE x

RECURSIVE Gcd(_, _)
Gcd(a, b) == IF b = 0 THEN a ELSE Gcd(b, a % b)

Rat(n, d) ==
    LET g == Gcd(Abs(n), Abs(d))
        s == IF d < 0 THEN -1 ELSE 1
    IN  IF n = 0 THEN [n |-> 0, d |-> 1]
        ELSE [n |-> s * (n \div g), d |-> s * (d \div g)]

RatAdd(a, b) == Rat(a.n * b.d + b.n * a.d, a.d * b.d)

RatSub(a, b) == Rat(a.n * b.d - b.n * a.d, a.d * b.d)

RatMul(a, b) == Rat(a.n * b.n, a.d * b.d)

RatDiv(a, b) == Rat(a.n * b.d, a.d * b.n)

RECURSIVE Pow10(_)
Pow10(k) == IF k = 0 THEN 1 ELSE 10 * Pow10(k - 1)

\* str::parse::<f64> on a value_part made of digits, '.', and a leading
\* sign: at least one digit, at most one '.'.
RECURSIVE DigitsVal(_, _)
DigitsVal(s, acc) ==
    IF s = <<>> THEN acc ELSE DigitsVal(Tail(s), 10 * acc + DigitVal(Head(s)))

parse_f64(s) ==
    LET signed == s # <<>> /\ Head(s) \in {"-", "+"}
        neg    == s # <<>> /\ Head(s) = "-"
        body   == IF signed THEN Tail(s) ELSE s
        dots   == {i \in 1..Len(body) : body[i] = "."}
        nd     == Cardinality({i \in 1..Len(body) : is_ascii_digit(body[i])})
        wellformed ==
            /\ \A i \in 1..Len(body) : is_ascii_digit(body[i]) \/ body[i] = "."
            /\ Cardinality(dots) <= 1
            /\ nd >= 1
        dot    == IF dots = {} THEN Len(body) + 1 ELSE CHOOSE i \in dots : TRUE
        ip     == SubSeq(body, 1, dot - 1)
        fp     == SubSeq(body, dot + 1, Len(body))
        mag    == Rat(DigitsVal(ip \o fp, 0), Pow10(Len(fp)))
    IN  IF ~wellformed THEN Err("parse_f64")
        ELSE Ok(IF neg THEN Rat(-mag.n, mag.d) ELSE mag)

\* ------------------------------------------------------------------------
\* Quantities and arithmetic (src/src/evaluator.rs)
\* ------------------------------------------------------------------------

Quantity(v, u) == [k |-> "q", value |-> v, unit |-> u, op |-> ""]

Operator(c) == [k |-> "op", value |-> Rat(0, 1), unit |-> <<>>, op |-> c]

\* parse_quantity: digits, '.', and a sign while value_part is still empty
\* go to the value; letters and '%' go to the unit; whitespace is skipped;
\* anything else is an error.
quantity_of(v, unit_part) ==
    IF v.ok THEN Ok(Quantity(v.val, unit_part)) ELSE Err("quantity_bad_number")

RECURSIVE parse_quantity_scan(_, _, _)
parse_quantity_scan(s, value_part, unit_part) ==
    IF s = <<>> THEN
        IF value_part = <<>> THEN Err("quantity_no_value")
        ELSE quantity_of(parse_f64(value_part), unit_part)
    ELSE LET ch == Head(s) IN
         IF is_ascii_digit(ch) \/ ch = "."
            \/ (ch \in {"-", "+"} /\ value_part = <<>>)
         THEN parse_quantity_scan(Tail(s), Append(value_part, ch), unit_part)
         ELSE IF is_ascii_alphabetic(ch) \/ ch = "%"
         THEN parse_quantity_scan(Tail(s), value_part, Append(unit_part, ch))
         ELSE IF is_whitespace(ch)
         THEN parse_quantity_scan(Tail(s), value_part, unit_part)
         ELSE Err("quantity_bad_char")

parse_quantity_trimmed(trimmed) ==
    IF trimmed = <<>> THEN Err("quantity_empty")
    ELSE parse_quantity_scan(trimmed, <<>>, <<>>)

parse_quantity(token) == parse_quantity_trimmed(trim(token))

push_quantity(tokens, q) ==
    IF q.ok THEN Ok(Append(tokens, q.val)) ELSE Err(q.err)

\* push_token: returns the new token list (current is cleared by the caller).
push_token_trimmed(tokens, trimmed) ==
        IF trimmed = <<>> THEN Ok(tokens)
        ELSE IF trimmed = <<"-">> \/ trimmed = <<"+">> THEN Err("token_sign_only")
        ELSE IF Len(trimmed) = 1 /\ is_operator(trimmed[1])
        THEN Ok(Append(tokens, Operator(trimmed[1])))
        ELSE push_quantity(tokens, parse_quantity(trimmed))

push_token(tokens, current) == push_token_trimmed(tokens, trim(current))

\* tokenize_expression: one pass over the characters carrying
\* (tokens, current, prev_was_operator).
RECURSIVE tokenize_from(_, _, _, _)
\* continue after a push_token that may have failed
tokenize_after_push(rest, r, appended, prev_was_operator) ==
    IF r.ok THEN tokenize_from(rest, r.val \o appended, <<>>, prev_was_operator)
    ELSE r

tokenize_char(ch, rest, tokens, current, prev_was_operator) ==
    IF is_whitespace(ch) THEN
        IF trim(current) = <<"-">> \/ trim(current) = <<"+">>
        THEN tokenize_from(rest, tokens, current, prev_was_operator)
        ELSE IF current # <<>>
        THEN tokenize_after_push(rest, push_token(tokens, current), <<>>,
                                 prev_was_operator)
        ELSE tokenize_from(rest, tokens, current, prev_was_operator)
    ELSE IF is_operator(ch) THEN
        IF ch = "-" /\ prev_was_operator
        THEN tokenize_from(rest, tokens, Append(current, ch), prev_was_operator)
        ELSE IF current # <<>>
        THEN tokenize_after_push(rest, push_token(tokens, current),
                                 <<Operator(ch)>>, TRUE)
        ELSE tokenize_from(rest, Append(tokens, Operator(ch)), <<>>, TRUE)
    ELSE tokenize_from(rest, tokens, Append(current, ch), FALSE)

tokenize_from(s, tokens, current, prev_was_operator) ==
    IF s = <<>> THEN
        IF current # <<>> THEN push_token(tokens, current) ELSE Ok(tokens)
    ELSE tokenize_char(Head(s), Tail(s), tokens, current, prev_was_operator)

tokenize_expression(input) == tokenize_from(input, <<>>, <<>>, TRUE)

\* apply_operator adding the magnitude of the right operand
mutant_apply_operator_adds_magnitude(lhs, op, rhs) ==
    IF op = "+" /\ lhs.unit = rhs.unit
    THEN Ok(Quantity(RatAdd(lhs.value, Rat(Abs(rhs.value.n), rhs.value.d)),
                     lhs.unit))
    ELSE Err("mixed_units")

\* f64::EPSILON test of the divisor: the model's rationals are zero or far
\* from zero.
apply_operator(lhs, op, rhs) ==
    IF op \in {"+", "-"} THEN
        IF lhs.unit # rhs.unit THEN Err("mixed_units")
        ELSE Ok(Quantity(IF op = "+" THEN RatAdd(lhs.value, rhs.value)
                                     ELSE RatSub(lhs.value, rhs.value),
                         lhs.unit))
    ELSE IF op = "*" THEN
        IF lhs.unit # <<>> /\ rhs.unit # <<>> THEN Err("unit_times_unit")
        ELSE Ok(Quantity(RatMul(lhs.value, rhs.value),
                         IF lhs.unit = <<>> THEN rhs.unit ELSE lhs.unit))
    ELSE IF op = "/" THEN
        IF rhs.value.n = 0 THEN Err("div_zero")
        ELSE IF rhs.unit # <<>> THEN Err("unit_divisor")
        ELSE Ok(Quantity(RatDiv(lhs.value, rhs.value), lhs.unit))
    ELSE Err("unknown_operator")

RECURSIVE NatText(_)
NatText(k) ==
    IF k < 10 THEN <<Digits[k + 1]>>
    ELSE Append(NatText(k \div 10), Digits[(k % 10) + 1])

RECURSIVE strip_zeros(_)
strip_zeros(s) ==
    IF contains(s, <<".">>) /\ s[Len(s)] = "0"
    THEN strip_zeros(SubSeq(s, 1, Len(s) - 1))
    ELSE s

\* format_quantity: "{value:.4}" (round to nearest, ties to even, sign kept
\* even when the digits round to zero), trailing zeros and a trailing '.'
\* removed, unit appended.  |value| < 1e-9 is coerced to 0 first.
format_quantity(q) ==
    LET v      == q.value
        tiny   == v.n = 0 \/ (Abs(v.n) <= 2 /\ v.d > Abs(v.n) * 1000000000)
        num    == IF tiny THEN 0 ELSE Abs(v.n) * 10000
        fl     == num \div v.d
        rem2   == 2 * (num % v.d)
        scaled == IF rem2 > v.d \/ (rem2 = v.d /\ fl % 2 = 1) THEN fl + 1 ELSE fl
        frac   == scaled % 10000
        pad    == IF frac < 10 THEN <<"0", "0", "0">>
                  ELSE IF frac < 100 THEN <<"0", "0">>
                  ELSE IF frac < 1000 THEN <<"0">> ELSE <<>>
        sign   == IF v.n < 0 /\ ~tiny THEN <<"-">> ELSE <<>>
        full   == sign \o NatText(scaled \div 10000) \o <<".">> \o pad
                  \o NatText(frac)
        nozero == strip_zeros(full)
        nodot  == IF nozero[Len(nozero)] = "."
                  THEN SubSeq(nozero, 1, Len(nozero) - 1) ELSE nozero
    IN  nodot \o q.unit

\* strip_outer_parentheses: while the text is one balanced (...) group
\* longer than two characters, drop the outer pair and trim.
RECURSIVE paren_scan(_, _, _)
paren_scan(s, idx, depth) ==
    \* result: [balanced, depth] of the loop over chars().enumerate()
    IF idx > Len(s) THEN [balanced |-> TRUE, depth |-> depth]
    ELSE IF s[idx] = "(" THEN paren_scan(s, idx + 1, depth + 1)
    ELSE IF s[idx] = ")" THEN
            IF depth - 1 = 0 /\ idx # Len(s)
            THEN [balanced |-> FALSE, depth |-> 0]
            ELSE paren_scan(s, idx + 1, depth - 1)
    ELSE paren_scan(s, idx + 1, depth)

RECURSIVE strip_outer_loop(_)
strip_outer_loop(trimmed) ==
    IF trimmed # <<>> /\ Head(trimmed) = "(" /\ trimmed[Len(trimmed)] = ")"
    THEN LET r == paren_scan(trimmed, 1, 0)
         IN  IF r.balanced /\ r.depth = 0 /\ Len(trimmed) > 2
             THEN strip_outer_loop(trim(SubSeq(trimmed, 2, Len(trimmed) - 1)))
             ELSE trimmed
    ELSE trimmed

strip_outer_parentheses(input) == strip_outer_loop(trim(input))

\* contains_operator: some operator character (not a '-' followed by '-')
\* whose neighbours are whitespace, digits, parentheses or operators (or,
\* on the right, '@'), or the edge of the text.
contains_operator(input) ==
    \E idx \in 1..Len(input) :
        /\ is_operator(input[idx])
        /\ ~(input[idx] = "-" /\ idx < Len(input) /\ input[idx + 1] = "-")
        /\ \/ idx = 1
           \/ is_whitespace(input[idx - 1])
           \/ is_ascii_digit(input[idx - 1])
           \/ input[idx - 1] \in {"(", ")", "+", "-", "*", "/"}
        /\ \/ idx = Len(input)
           \/ is_whitespace(input[idx + 1])
           \/ is_ascii_digit(input[idx + 1])
           \/ input[idx + 1] = "@"
           \/ input[idx + 1] \in {"(", ")", "+", "-", "*", "/"}

replace_parens(s) ==
    [i \in 1..Len(s) |-> IF s[i] \in {"(", ")"} THEN " " ELSE s[i]]

RECURSIVE join_space(_)
join_space(ss) ==
    IF ss = <<>> THEN <<>>
    ELSE IF Len(ss) = 1 THEN ss[1]
    ELSE ss[1] \o <<" ">> \o join_space(Tail(ss))

\* The fold of evaluate_arithmetic over the tokens after the first one.
RECURSIVE arithmetic_fold(_, _, _)
fold_after_operator(rest, r, results) ==
    IF r.ok THEN arithmetic_fold(rest, r.val, results) ELSE r

mutant_arithmetic_fold_forgets_segments(toks, current, results) ==
    IF toks = <<>> THEN Ok(Append(results, current))
    ELSE IF Head(toks).k = "op" THEN
        IF Len(toks) < 2 \/ toks[2].k # "q" THEN Err("missing_rhs")
        ELSE fold_after_operator(SubSeq(toks, 3, Len(toks)),
                                 apply_operator(current, Head(toks).op, toks[2]),
                                 results)
    ELSE arithmetic_fold(Tail(toks), Head(toks), results)

arithmetic_fold(toks, current, results) ==
    IF toks = <<>> THEN Ok(Append(results, current))
    ELSE IF Head(toks).k = "op" THEN
        IF Len(toks) < 2 \/ toks[2].k # "q" THEN Err("missing_rhs")
        ELSE fold_after_operator(SubSeq(toks, 3, Len(toks)),
                                 apply_operator(current, Head(toks).op, toks[2]),
                                 results)
    ELSE arithmetic_fold(Tail(toks), Head(toks), Append(results, current))

format_results(f) ==
    IF ~f.ok THEN Err(f.err)
    ELSE Ok(<<join_space([i \in 1..Len(f.val) |-> format_quantity(f.val[i])])>>)

arithmetic_of_tokens(t) ==
    IF ~t.ok THEN Err(t.err)
    ELSE IF t.val = <<>> THEN Ok(<<>>)
    ELSE IF Head(t.val).k # "q" THEN Err("missing_initial")
    ELSE format_results(arithmetic_fold(Tail(t.val), Head(t.val), <<>>))

arithmetic_of_expression(expression) ==
    IF expression = <<>> \/ ~contains_operator(expression) THEN Ok(<<>>)
    ELSE arithmetic_of_tokens(tokenize_expression(expression))

\* evaluate_arithmetic: LessResult<Option<String>>; val is <<>> for None and
\* <<text>> for Some(text).
evaluate_arithmetic(input) ==
    arithmetic_of_expression(strip_outer_parentheses(trim(replace_parens(input))))

\* ------------------------------------------------------------------------
\* compute_value and declarations
\* ------------------------------------------------------------------------

ColorFunctionNames ==
    { <<"l", "i", "g", "h", "t", "e", "n">>, <<"d", "a", "r", "k", "e", "n">>,
      <<"f", "a", "d", "e">>, <<"o", "v", "e", "r", "l", "a", "y", "(">> }

\* evaluate_color_function and replace_inline_color_functions can only
\* match a text that spells one of the function names.  The color model
\* (src/src/color.rs) is not part of this model, so such texts are kept out
\* of every input set and the branch is represented by its guard alone.
names_color_function(input) == \E nm \in ColorFunctionNames : contains(input, nm)

PassthroughMarkers ==
    { <<"v", "a", "r", "(">>, <<"u", "r", "l", "(">>,
      <<"u", "n", "i", "t", "(">>, <<"c", "a", "l", "c", "(">> }

\* the match on evaluate_arithmetic's result at the end of compute_value
arithmetic_or_text(input, a) ==
    IF ~a.ok THEN Ok(input)                   \* Err(_) => Ok(input.to_string())
    ELSE IF a.val # <<>> THEN Ok(a.val[1])
    ELSE Ok(input)

compute_value(input) ==
    IF input = <<>> THEN Ok(<<>>)
    ELSE IF names_color_function(input) THEN Err("color_model")
    ELSE IF \E mk \in PassthroughMarkers : contains(input, mk) THEN Ok(input)
    ELSE arithmetic_or_text(input, evaluate_arithmetic(input))

ImportantMarker == <<"!", "i", "m", "p", "o", "r", "t", "a", "n", "t">>

\* strip_important: Option<String>, <<>> for None and <<text>> for Some.
strip_important_trimmed(trimmed) ==
    IF ends_with(trimmed, ImportantMarker)
    THEN <<trim_end(SubSeq(trimmed, 1, Len(trimmed) - Len(ImportantMarker)))>>
    ELSE <<>>

strip_important(value) == strip_important_trimmed(trim_end(value))

\* Variable values and scope stacks.
Text(t) == [k |-> "text", text |-> t, body |-> <<>>]

DetachedRuleset(b) == [k |-> "ruleset", text |-> <<>>, body |-> b]

\* lookup_variable searching from the outermost scope inwards
RECURSIVE mutant_lookup_variable_outermost_first(_, _)
mutant_lookup_variable_outermost_first(scopes, name) ==
    IF scopes = <<>> THEN Err("undefined_variable")
    ELSE IF name \in DOMAIN scopes[1] THEN Ok(scopes[1][name])
    ELSE mutant_lookup_variable_outermost_first(Tail(scopes), name)

RECURSIVE lookup_variable(_, _)
lookup_variable(scopes, name) ==
    IF scopes = <<>> THEN Err("undefined_variable")
    ELSE IF name \in DOMAIN scopes[Len(scopes)]
         THEN Ok(scopes[Len(scopes)][name])
         ELSE lookup_variable(SubSeq(scopes, 1, Len(scopes) - 1), name)

text_of(v) ==
    IF ~v.ok THEN Err(v.err)
    ELSE IF v.val.k = "text" THEN Ok(v.val.text)
    ELSE Err("variable_not_text")

resolve_variable_text(scopes, name) == text_of(lookup_variable(scopes, name))

ruleset_of(v) ==
    IF ~v.ok THEN Err(v.err)
    ELSE IF v.val.k = "ruleset" THEN Ok(v.val.body)
    ELSE Err("variable_not_ruleset")

resolve_ruleset_variable(scopes, name) == ruleset_of(lookup_variable(scopes, name))

MapInsert(m, key, v) ==
    [x \in (DOMAIN m) \cup {key} |-> IF x = key THEN v ELSE m[x]]

EmptyMap == [x \in {} |-> 0]

set_innermost(sc, key, v) ==
    IF sc = <<>> THEN sc
    ELSE [sc EXCEPT ![Len(sc)] = MapInsert(@, key, v)]

set_variable_text(scopes, name, value) == set_innermost(scopes, name, Text(value))

set_variable_ruleset(scopes, name, body) ==
    set_innermost(scopes, name, DetachedRuleset(body))

set_mixin(mixin_scopes, definition) ==
    set_innermost(mixin_scopes, definition.name, definition)

\* resolve_mixin searching from the outermost scope inwards
RECURSIVE mutant_resolve_mixin_outermost_first(_, _)
mutant_resolve_mixin_outermost_first(mixin_scopes, name) ==
    IF mixin_scopes = <<>> THEN Err("undefined_mixin")
    ELSE IF name \in DOMAIN mixin_scopes[1] THEN Ok(mixin_scopes[1][name])
    ELSE mutant_resolve_mixin_outermost_first(Tail(mixin_scopes), name)

RECURSIVE resolve_mixin(_, _)
resolve_mixin(mixin_scopes, name) ==
    IF mixin_scopes = <<>> THEN Err("undefined_mixin")
    ELSE IF name \in DOMAIN mixin_scopes[Len(mixin_scopes)]
         THEN Ok(mixin_scopes[Len(mixin_scopes)][name])
         ELSE resolve_mixin(SubSeq(mixin_scopes, 1, Len(mixin_scopes) - 1), name)

\* Value pieces.
Literal(t) == [k |-> "lit", text |-> t]

VariableRef(n) == [k |-> "ref", text |-> n]

RECURSIVE eval_pieces(_, _, _)
append_resolved(scopes, rest, buffer, r) ==
    IF r.ok THEN eval_pieces(scopes, rest, buffer \o r.val) ELSE r

eval_pieces(scopes, pieces, buffer) ==
    IF pieces = <<>> THEN Ok(buffer)
    ELSE IF Head(pieces).k = "lit"
    THEN eval_pieces(scopes, Tail(pieces), buffer \o Head(pieces).text)
    ELSE append_resolved(scopes, Tail(pieces), buffer,
                         resolve_variable_text(scopes, Head(pieces).text))

compute_buffer(b) == IF b.ok THEN compute_value(trim(b.val)) ELSE b

eval_value(scopes, value) == compute_buffer(eval_pieces(scopes, value, <<>>))

\* interpolate_property_name: every @{name} is replaced by the trimmed text
\* of the variable; the result is trimmed.
RECURSIVE interpolate_scan(_, _, _)
interpolate_value(scopes, after, output, v) ==
    IF v.ok THEN interpolate_scan(scopes, after, output \o trim(v.val)) ELSE v

interpolate_token(scopes, rest, stop, output) ==
    IF stop = 1 THEN Err("empty_interpolation")
    ELSE interpolate_value(scopes, SubSeq(rest, stop + 1, Len(rest)), output,
                           resolve_variable_text(scopes, SubSeq(rest, 1, stop - 1)))

first_close(rest) ==
    IF \E i \in 1..Len(rest) : rest[i] = "}"
    THEN CHOOSE i \in 1..Len(rest) :
            rest[i] = "}" /\ \A j \in 1..(i - 1) : rest[j] # "}"
    ELSE Len(rest) + 1

interpolate_scan(scopes, raw, output) ==
    IF raw = <<>> THEN Ok(trim(output))
    ELSE IF Head(raw) = "@" /\ Len(raw) >= 2 /\ raw[2] = "{"
    THEN interpolate_token(scopes, SubSeq(raw, 3, Len(raw)),
                           first_close(SubSeq(raw, 3, Len(raw))), output)
    ELSE interpolate_scan(scopes, Tail(raw), Append(output, Head(raw)))

interpolate_property_name(scopes, raw) ==
    IF ~contains(raw, <<"@", "{">>) THEN Ok(trim(raw))
    ELSE interpolate_scan(scopes, raw, <<>>)

EvaluatedDeclaration(n, v, i) == [name |-> n, value |-> v, important |-> i]

flag_important(name, value, important, stripped) ==
    IF stripped # <<>> THEN Ok(EvaluatedDeclaration(name, stripped[1], TRUE))
    ELSE Ok(EvaluatedDeclaration(name, value, important))

declaration_of(name, value, important) ==
    IF ~name.ok THEN name
    ELSE IF ~value.ok THEN value
    ELSE flag_important(name.val, value.val, important,
                        IF important THEN <<>> ELSE strip_important(value.val))

\* eval_declaration(decl) with decl = [name, value, important].
eval_declaration(scopes, decl) ==
    declaration_of(interpolate_property_name(scopes, decl.name),
                   eval_value(scopes, decl.value), decl.important)

\* ------------------------------------------------------------------------
\* AST (src/src/ast.rs)
\* ------------------------------------------------------------------------

Declaration(n, v) == [t |-> "decl", name |-> n, value |-> v, important |-> FALSE]

VariableDeclaration(n, v) == [t |-> "var", name |-> n, value |-> v]

RuleSet(sels, b) == [t |-> "rule", selectors |-> sels, body |-> b]

AtRule(n, p, b) == [t |-> "at_rule", name |-> n, params |-> p, body |-> b]

MixinParam(n, d) == [name |-> n, default |-> d]       \* d: <<>> or <<value>>

MixinDefinition(n, ps, b) ==
    [t |-> "mixin_def", def |-> [name |-> n, params |-> ps, body |-> b]]

ArgValue(v) == [k |-> "value", value |-> v, body |-> <<>>]

ArgRuleset(b) == [k |-> "ruleset", value |-> <<>>, body |-> b]

MixinCall(n, as) == [t |-> "mixin_call", name |-> n, args |-> as]

DetachedCall(n) == [t |-> "detached_call", name |-> n]

ImportStatement(r, p, css) ==
    [t |-> "import", raw |-> r, path |-> p, is_css |-> css]  \* p: <<>> or <<path>>

\* ------------------------------------------------------------------------
\* Parser: the @import statement (src/src/parser.rs)
\* ------------------------------------------------------------------------

\* str::find of one character at or after index i: 0 when there is none
RECURSIVE find_char(_, _, _)
find_char(s, c, i) ==
    IF i > Len(s) THEN 0 ELSE IF s[i] = c THEN i ELSE find_char(s, c, i + 1)

UpperCase ==
    <<"A", "B", "C", "D", "E", "F", "G", "H", "I", "J", "K", "L", "M", "N", "O",
      "P", "Q", "R", "S", "T", "U", "V", "W", "X", "Y", "Z">>

LowerCase ==
    <<"a", "b", "c", "d", "e", "f", "g", "h", "i", "j", "k", "l", "m", "n", "o",
      "p", "q", "r", "s", "t", "u", "v", "w", "x", "y", "z">>

to_ascii_lowercase(s) ==
    [i \in 1..Len(s) |->
        IF \E k \in 1..26 : UpperCase[k] = s[i]
        THEN LowerCase[CHOOSE k \in 1..26 : UpperCase[k] = s[i]]
        ELSE s[i]]

\* opt_str.split(',' or whitespace).filter(non-empty).map(lowercase)
with_option(acc, current) ==
    IF current # <<>> THEN Append(acc, to_ascii_lowercase(current)) ELSE acc

RECURSIVE split_options(_, _, _)
split_options(s, current, acc) ==
    IF s = <<>> THEN with_option(acc, current)
    ELSE IF Head(s) = "," \/ is_whitespace(Head(s))
    THEN split_options(Tail(s), <<>>, with_option(acc, current))
    ELSE split_options(Tail(s), Append(current, Head(s)), acc)

\* split_whitespace().next() of a text that starts with a non-blank
RECURSIVE first_word(_)
first_word(s) ==
    IF s = <<>> \/ is_whitespace(Head(s)) THEN <<>>
    ELSE <<Head(s)>> \o first_word(Tail(s))

quoted_path(rest, end) == IF end = 0 THEN <<>> ELSE <<SubSeq(rest, 1, end - 1)>>

extract_import_path_trimmed(trimmed) ==
    IF trimmed = <<>> THEN <<>>
    ELSE IF Head(trimmed) \in {"\"", "'"}
    THEN quoted_path(Tail(trimmed), find_char(Tail(trimmed), Head(trimmed), 1))
    ELSE IF starts_with(trimmed, <<"u", "r", "l", "(">>) THEN <<>>
    ELSE <<first_word(trimmed)>>

\* Option<String>
extract_import_path(input) == extract_import_path_trimmed(trim(input))

\* parse_import leaving an import without a path a LESS import unless its
\* options say css
mutant_import_of_pathless_stays_less(options, trimmed, path) ==
    ImportStatement(
        <<"@", "i", "m", "p", "o", "r", "t", " ">> \o trimmed \o <<";">>,
        path,
        \/ \E i \in 1..Len(options) : options[i] = <<"c", "s", "s">>
        \/ (path # <<>> /\ ends_with(path[1], <<".", "c", "s", "s">>)))

import_of(options, trimmed, path) ==
    ImportStatement(
        <<"@", "i", "m", "p", "o", "r", "t", " ">> \o trimmed \o <<";">>,
        path,
        \/ \E i \in 1..Len(options) : options[i] = <<"c", "s", "s">>
        \/ path = <<>>
        \/ ends_with(path[1], <<".", "c", "s", "s">>))

import_with(options, remainder) ==
    import_of(options, trim(remainder), extract_import_path(trim(remainder)))

import_after_options(remainder, end) ==
    IF end = 0 THEN Err("incomplete_import_options")
    ELSE Ok(import_with(split_options(SubSeq(remainder, 2, end - 1), <<>>, <<>>),
                        trim_start(SubSeq(remainder, end + 1, Len(remainder)))))

import_of_remainder(remainder) ==
    IF starts_with(remainder, <<"(">>)
    THEN import_after_options(remainder, find_char(remainder, ")", 1))
    ELSE Ok(import_with(<<>>, remainder))

\* parse_import after `@import`: spec is the text up to the `;`
parse_import(spec) == import_of_remainder(trim_start(spec))

\* ------------------------------------------------------------------------
\* Parser: Cursor (src/src/parser.rs)
\* ------------------------------------------------------------------------

\* The source is ASCII, so a byte offset is a number of characters; pos is
\* the cursor's position.  peek_char is EndOfInput for None.
EndOfInput == "eof"

peek_char(src, pos) == IF pos < Len(src) THEN src[pos + 1] ELSE EndOfInput

is_eof(src, pos) == pos >= Len(src)

\* LessResult of a parsing function together with the cursor it leaves;
\* an error carries the position where it was detected.
Parsed(v, pos) == [ok |-> TRUE, val |-> v, pos |-> pos, err |-> "none"]

ParseError(message, position) ==
    [ok |-> FALSE, val |-> <<>>, pos |-> position, err |-> message]

RECURSIVE skip_whitespace(_, _)
skip_whitespace(src, pos) ==
    IF pos < Len(src) /\ is_whitespace(src[pos + 1])
    THEN skip_whitespace(src, pos + 1) ELSE pos

\* source[position..].starts_with(prefix)
at_str(src, pos, prefix) == starts_with(SubSeq(src, pos + 1, Len(src)), prefix)

\* consume_comment: `//` through the line break, `/*` through `*/`, both
\* at most to the end of the input
RECURSIVE skip_line(_, _)
skip_line(src, pos) ==
    IF pos >= Len(src) THEN pos
    ELSE IF src[pos + 1] = "\n" THEN pos + 1
    ELSE skip_line(src, pos + 1)

RECURSIVE skip_block_comment(_, _)
skip_block_comment(src, pos) ==
    IF pos >= Len(src) THEN pos
    ELSE IF at_str(src, pos, <<"*", "/">>) THEN pos + 2
    ELSE skip_block_comment(src, pos + 1)

RECURSIVE skip_whitespace_and_comments(_, _)
consume_comment(src, pos) ==
    IF at_str(src, pos, <<"/", "/">>)
    THEN skip_whitespace_and_comments(src, skip_line(src, pos + 2))
    ELSE IF at_str(src, pos, <<"/", "*">>)
    THEN skip_whitespace_and_comments(src, skip_block_comment(src, pos + 2))
    ELSE pos

skip_whitespace_and_comments(src, pos) ==
    consume_comment(src, skip_whitespace(src, pos))

is_identifier_char(c) ==
    \/ is_ascii_alphabetic(c)
    \/ is_ascii_digit(c)
    \/ \E k \in 1..26 : UpperCase[k] = c
    \/ c \in {"-", "_"}

RECURSIVE identifier_end(_, _)
identifier_end(src, pos) ==
    IF pos < Len(src) /\ is_identifier_char(src[pos + 1])
    THEN identifier_end(src, pos + 1) ELSE pos

read_identifier(src, pos) == SubSeq(src, pos + 1, identifier_end(src, pos))

\* expect_char: the position of the error is the one after advance_char
expect_char(src, pos, expect) ==
    IF pos >= Len(src) THEN ParseError("expected_char", pos)
    ELSE IF src[pos + 1] = expect THEN Parsed(<<>>, pos + 1)
    ELSE ParseError("expected_char", pos + 1)

read_until_at(src, pos, stop) ==
    IF stop = 0 THEN ParseError("expected_char", Len(src))
    ELSE Parsed(SubSeq(src, pos + 1, stop - 1), stop - 1)

read_until(src, pos, end) == read_until_at(src, pos, find_char(src, end, pos + 1))

\* read_property_name: up to `:`, `;`, a `{` that does not open an
\* interpolation, or a control character; @{...} is taken whole.
is_control(c) == c \in {"\n", "\t"}

interpolation_end(src, pos) ==
    IF find_char(src, "}", pos + 1) = 0 THEN Len(src)
    ELSE find_char(src, "}", pos + 1)

RECURSIVE property_name_end(_, _, _)
property_name_end(src, pos, pending_interpolation) ==
    IF pos >= Len(src) THEN pos
    ELSE IF src[pos + 1] \in {":", ";"} THEN pos
    ELSE IF src[pos + 1] = "{" /\ ~pending_interpolation THEN pos
    ELSE IF is_control(src[pos + 1]) THEN pos
    ELSE IF src[pos + 1] = "@" THEN property_name_end(src, pos + 1, TRUE)
    ELSE IF src[pos + 1] = "{"
    THEN property_name_end(src, interpolation_end(src, pos + 1),
                           find_char(src, "}", pos + 2) = 0)
    ELSE property_name_end(src, pos + 1,
                           pending_interpolation /\ is_whitespace(src[pos + 1]))

\* ------------------------------------------------------------------------
\* Parser: lookaheads
\* ------------------------------------------------------------------------

\* Each lookahead works on a clone of the cursor.  The callers test
\* starts_with('@') first, so expect_char('@') never fails in them.
lookahead_is_variable_decl(src, pos) ==
    peek_char(src, skip_whitespace(src, identifier_end(src, pos + 1))) = ":"

lookahead_is_import(src, pos) ==
    /\ peek_char(src, pos) = "@"
    /\ to_ascii_lowercase(read_identifier(src, pos + 1))
         = <<"i", "m", "p", "o", "r", "t">>

RECURSIVE block_at_rule_scan(_, _, _)
block_at_rule_scan(src, pos, paren_depth) ==
    IF pos >= Len(src) THEN FALSE
    ELSE IF src[pos + 1] = "{" /\ paren_depth = 0 THEN TRUE
    ELSE IF src[pos + 1] = "(" THEN block_at_rule_scan(src, pos + 1, paren_depth + 1)
    ELSE IF src[pos + 1] = ")"
    THEN block_at_rule_scan(src, pos + 1,
                            IF paren_depth > 0 THEN paren_depth - 1 ELSE 0)
    ELSE IF src[pos + 1] = ";" THEN FALSE
    ELSE block_at_rule_scan(src, pos + 1, paren_depth)

lookahead_is_block_at_rule(src, pos) ==
    /\ peek_char(src, pos) = "@"
    /\ read_identifier(src, pos + 1) # <<>>
    /\ block_at_rule_scan(src,
          skip_whitespace_and_comments(src, identifier_end(src, pos + 1)), 0)

\* The position after the `)` that closes the `(` before pos, or 0 when
\* the input ends first (depth != 0).
RECURSIVE closing_paren(_, _, _)
closing_paren(src, pos, depth) ==
    IF pos >= Len(src) THEN 0
    ELSE IF src[pos + 1] = "(" THEN closing_paren(src, pos + 1, depth + 1)
    ELSE IF src[pos + 1] = ")"
    THEN (IF depth = 1 THEN pos + 1 ELSE closing_paren(src, pos + 1, depth - 1))
    ELSE closing_paren(src, pos + 1, depth)

call_follows(src, open, close) ==
    /\ peek_char(src, open) = "("
    /\ close # 0
    /\ peek_char(src, skip_whitespace_and_comments(src, close)) = ";"

lookahead_is_detached_call(src, pos) ==
    /\ peek_char(src, pos) = "@"
    /\ read_identifier(src, pos + 1) # <<>>
    /\ call_follows(src,
          skip_whitespace_and_comments(src, identifier_end(src, pos + 1)),
          closing_paren(src,
             skip_whitespace_and_comments(src, identifier_end(src, pos + 1)) + 1,
             1))

\* Both mixin lookaheads return false at their first test unless the text
\* starts with `.` or `#`; the sources parsed here have neither character.
starts_mixin_name(src, pos) == peek_char(src, pos) \in {".", "#"}

\* detect_body_kind: Some(Declaration), Some(NestedRule) or None
RECURSIVE body_kind_scan(_, _, _, _)
body_kind_scan(src, pos, saw_colon, pending_interpolation) ==
    IF pos >= Len(src) THEN (IF saw_colon THEN "Declaration" ELSE "None")
    ELSE IF src[pos + 1] = "@" THEN body_kind_scan(src, pos + 1, saw_colon, TRUE)
    ELSE IF src[pos + 1] = "{" /\ pending_interpolation
    THEN body_kind_scan(src, interpolation_end(src, pos + 1), saw_colon, FALSE)
    ELSE IF src[pos + 1] = "{" THEN "NestedRule"
    ELSE IF src[pos + 1] = ";" THEN "Declaration"
    ELSE IF src[pos + 1] = "}" THEN (IF saw_colon THEN "Declaration" ELSE "None")
    ELSE IF src[pos + 1] = ":"
    THEN body_kind_scan(src, pos + 1, TRUE, pending_interpolation)
    ELSE body_kind_scan(src, pos + 1, saw_colon, FALSE)

detect_body_kind(src, pos) ==
    body_kind_scan(src, skip_whitespace_and_comments(src, pos), FALSE, FALSE)

\* ------------------------------------------------------------------------
\* Parser: values, declarations, rulesets, at-rules
\* ------------------------------------------------------------------------

\* The quoted-string loop of read_value: the position after the closing
\* quote, or the end of the input when the string is never closed.  A
\* backslash takes the character after it along.
RECURSIVE string_end(_, _, _)
string_end(src, pos, quote) ==
    IF pos >= Len(src) THEN pos
    ELSE IF src[pos + 1] = quote THEN pos + 1
    ELSE IF src[pos + 1] = "\\"
    THEN (IF pos + 1 < Len(src) THEN string_end(src, pos + 2, quote) ELSE pos + 1)
    ELSE string_end(src, pos + 1, quote)

with_literal(pieces, current) ==
    IF current # <<>> THEN Append(pieces, Literal(current)) ELSE pieces

RECURSIVE read_value_from(_, _, _, _, _, _)
read_string(src, pos, terminators, pieces, current, paren_depth, end) ==
    read_value_from(src, end, terminators, pieces,
                    current \o SubSeq(src, pos + 1, end), paren_depth)

read_reference(src, pos, terminators, pieces, current, paren_depth, name) ==
    IF name = <<>> THEN ParseError("empty_variable_name", pos + 1)
    ELSE read_value_from(src, pos + 1 + Len(name), terminators,
                         Append(with_literal(pieces, current), VariableRef(name)),
                         <<>>, paren_depth)

read_value_from(src, pos, terminators, pieces, current, paren_depth) ==
    IF pos >= Len(src) \/ (src[pos + 1] \in terminators /\ paren_depth = 0)
    THEN Parsed(with_literal(pieces, current), pos)
    ELSE IF src[pos + 1] \in {"'", "\""}
    THEN read_string(src, pos, terminators, pieces, current, paren_depth,
                     string_end(src, pos + 1, src[pos + 1]))
    ELSE IF src[pos + 1] = "@"
    THEN read_reference(src, pos, terminators, pieces, current, paren_depth,
                        read_identifier(src, pos + 1))
    ELSE read_value_from(src, pos + 1, terminators, pieces,
                         Append(current, src[pos + 1]),
                         IF src[pos + 1] = "(" THEN paren_depth + 1
                         ELSE IF src[pos + 1] = ")" /\ paren_depth > 0
                         THEN paren_depth - 1
                         ELSE paren_depth)

read_value(src, pos, terminators) ==
    read_value_from(src, pos, terminators, <<>>, <<>>, 0)

\* if cursor.peek_char() == Some(';') { cursor.advance_char(); }
after_semicolon(src, pos) == IF peek_char(src, pos) = ";" THEN pos + 1 ELSE pos

variable_of(src, name, value) ==
    IF ~value.ok THEN value
    ELSE Parsed(VariableDeclaration(name, value.val), after_semicolon(src, value.pos))

variable_after_colon(src, name, colon) ==
    IF ~colon.ok THEN colon
    ELSE variable_of(src, name,
            read_value(src, skip_whitespace_and_comments(src, colon.pos), {";"}))

parse_variable(src, pos) ==
    variable_after_colon(src, read_identifier(src, pos + 1),
        expect_char(src,
            skip_whitespace_and_comments(src, identifier_end(src, pos + 1)), ":"))

declaration_with(src, name, value) ==
    IF ~value.ok THEN value
    ELSE Parsed(Declaration(name, value.val), after_semicolon(src, value.pos))

declaration_after_colon(src, name, colon) ==
    IF ~colon.ok THEN colon
    ELSE declaration_with(src, name,
            read_value(src, skip_whitespace_and_comments(src, colon.pos),
                       {";", "}"}))

parse_declaration(src, pos) ==
    declaration_after_colon(src,
        trim(SubSeq(src, pos + 1, property_name_end(src, pos, FALSE))),
        expect_char(src,
            skip_whitespace_and_comments(src, property_name_end(src, pos, FALSE)),
            ":"))

\* selector_raw.split(',') trimmed, the empty ones left out
RECURSIVE split_selectors(_, _, _)
with_selector(acc, current) ==
    IF trim(current) # <<>> THEN Append(acc, trim(current)) ELSE acc

split_selectors(raw, current, acc) ==
    IF raw = <<>> THEN with_selector(acc, current)
    ELSE IF Head(raw) = "," THEN split_selectors(Tail(raw), <<>>, with_selector(acc, current))
    ELSE split_selectors(Tail(raw), Append(current, Head(raw)), acc)

\* at-rule params: up to a `{` outside parentheses, or the end of the input
RECURSIVE params_end(_, _, _)
params_end(src, pos, paren_depth) ==
    IF pos >= Len(src) THEN pos
    ELSE IF src[pos + 1] = "{" /\ paren_depth = 0 THEN pos
    ELSE params_end(src, pos + 1,
                    IF src[pos + 1] = "(" THEN paren_depth + 1
                    ELSE IF src[pos + 1] = ")" /\ paren_depth > 0
                    THEN paren_depth - 1
                    ELSE paren_depth)

\* parse_detached_call
detached_call_closed(src, name, pos) ==
    IF peek_char(src, pos) # ")" THEN ParseError("call_with_arguments", pos)
    ELSE IF ~expect_char(src, skip_whitespace_and_comments(src, pos + 1), ";").ok
    THEN expect_char(src, skip_whitespace_and_comments(src, pos + 1), ";")
    ELSE Parsed(DetachedCall(name),
                skip_whitespace_and_comments(src, pos + 1) + 1)

detached_call_open(src, name, open) ==
    IF ~open.ok THEN open
    ELSE detached_call_closed(src, name,
                              skip_whitespace_and_comments(src, open.pos))

parse_detached_call(src, pos) ==
    detached_call_open(src, read_identifier(src, pos + 1),
        expect_char(src,
            skip_whitespace_and_comments(src, identifier_end(src, pos + 1)), "("))

RECURSIVE parse_rule_body_item(_, _)
RECURSIVE ruleset_body(_, _, _)
RECURSIVE parse_at_rule_body(_, _, _)

ruleset_of_body(selectors, body) ==
    IF ~body.ok THEN body ELSE Parsed(RuleSet(selectors, body.val), body.pos)

ruleset_after_selectors(src, selector_raw) ==
    IF ~selector_raw.ok THEN selector_raw
    ELSE IF split_selectors(selector_raw.val, <<>>, <<>>) = <<>>
    THEN ParseError("missing_selector", selector_raw.pos)
    ELSE ruleset_of_body(split_selectors(selector_raw.val, <<>>, <<>>),
                         ruleset_body(src, selector_raw.pos + 1, <<>>))

parse_ruleset(src, pos) ==
    ruleset_after_selectors(src,
        read_until(src, skip_whitespace_and_comments(src, pos), "{"))

body_with_item(src, body, item, closing) ==
    IF ~item.ok THEN item
    ELSE IF closing = "}" THEN ruleset_body(src, item.pos, Append(body, item.val))
    ELSE parse_at_rule_body(src, item.pos, Append(body, item.val))

\* the loop of parse_ruleset after the `{`
ruleset_body_at(src, pos, body) ==
    IF peek_char(src, pos) = "}" THEN Parsed(body, pos + 1)
    ELSE IF is_eof(src, pos) THEN ParseError("missing_closing_brace", pos)
    ELSE body_with_item(src, body, parse_rule_body_item(src, pos), "}")

ruleset_body(src, pos, body) ==
    ruleset_body_at(src, skip_whitespace_and_comments(src, pos), body)

at_rule_body_at(src, pos, body) ==
    IF peek_char(src, pos) = "}" THEN Parsed(body, pos + 1)
    ELSE IF is_eof(src, pos) THEN ParseError("at_rule_missing_closing_brace", pos)
    ELSE body_with_item(src, body, parse_rule_body_item(src, pos), "at_rule")

parse_at_rule_body(src, pos, body) ==
    at_rule_body_at(src, skip_whitespace_and_comments(src, pos), body)

at_rule_of_body(name, params, body) ==
    IF ~body.ok THEN body ELSE Parsed(AtRule(name, params, body.val), body.pos)

at_rule_after_params(src, name, from, to, open) ==
    IF ~open.ok THEN open
    ELSE at_rule_of_body(name, trim(SubSeq(src, from + 1, to)),
                         parse_at_rule_body(src, open.pos, <<>>))

\* After the params loop the cursor is at a `{` or at the end of the
\* input, so the `when` guard that follows in the code is never taken.
at_rule_params(src, name, from, to) ==
    at_rule_after_params(src, name, from, to,
        expect_char(src, skip_whitespace_and_comments(src, to), "{"))

at_rule_named(src, name, from) ==
    IF name = <<>> THEN ParseError("empty_at_rule_name", from)
    ELSE at_rule_params(src, name, skip_whitespace_and_comments(src, from),
            params_end(src, skip_whitespace_and_comments(src, from), 0))

parse_at_rule(src, pos) ==
    at_rule_named(src, read_identifier(src, pos + 1), identifier_end(src, pos + 1))

body_item_of_kind(src, pos, kind) ==
    IF kind = "Declaration" THEN parse_declaration(src, pos)
    ELSE IF kind = "NestedRule" THEN parse_ruleset(src, pos)
    ELSE ParseError("neither_declaration_nor_rule", pos)

parse_rule_body_item(src, pos) ==
    IF peek_char(src, pos) = "@" /\ lookahead_is_variable_decl(src, pos)
    THEN parse_variable(src, pos)
    ELSE IF peek_char(src, pos) = "@" /\ lookahead_is_block_at_rule(src, pos)
    THEN parse_at_rule(src, pos)
    ELSE IF peek_char(src, pos) = "@" /\ lookahead_is_detached_call(src, pos)
    THEN parse_detached_call(src, pos)
    ELSE body_item_of_kind(src, pos, detect_body_kind(src, pos))

\* parse_import from the `@`: the lookahead has seen the word import
import_statement_of(spec) ==
    IF ~spec.ok THEN spec
    ELSE IF ~parse_import(spec.val).ok
    THEN ParseError(parse_import(spec.val).err, spec.pos + 1)
    ELSE Parsed(parse_import(spec.val).val, spec.pos + 1)

parse_import_statement(src, pos) ==
    import_statement_of(read_until(src, identifier_end(src, pos + 1), ";"))

\* Evaluated tree (src/src/evaluator.rs)
EvaluatedRule(sels, decls) ==
    [k |-> "rule", selectors |-> sels, declarations |-> decls]

EvaluatedAtRule(n, p, decls, ch) ==
    [k |-> "at_rule", name |-> n, params |-> p, declarations |-> decls,
     children |-> ch]

\* ------------------------------------------------------------------------
\* Selector combination
\* ------------------------------------------------------------------------

RECURSIVE replace_amp(_, _)
replace_amp(child, parent) ==
    IF child = <<>> THEN <<>>
    ELSE (IF Head(child) = "&" THEN parent ELSE <<Head(child)>>)
         \o replace_amp(Tail(child), parent)

mutant_combine_one_always_descendant(parent, child) ==
    trim(parent) \o <<" ">> \o trim(child)

combine_one(parent, child) ==
    IF contains(child, <<"&">>) THEN trim(replace_amp(child, parent))
    ELSE trim(parent) \o <<" ">> \o trim(child)

\* combine_selectors: parents outer loop, children inner loop.
combine_selectors(parents, current) ==
    IF parents = <<>> THEN current
    ELSE [i \in 1..(Len(parents) * Len(current)) |->
            combine_one(parents[((i - 1) \div Len(current)) + 1],
                        current[((i - 1) % Len(current)) + 1])]

\* ------------------------------------------------------------------------
\* Serializer (src/src/serializer.rs)
\* ------------------------------------------------------------------------

EvaluatedStylesheet(imps, ns) == [imports |-> imps, nodes |-> ns]

\* src/utils.rs indent: two spaces per level
RECURSIVE indent(_)
indent(level) == IF level = 0 THEN <<>> ELSE <<" ", " ">> \o indent(level - 1)

RECURSIVE join_with(_, _)
join_with(ss, sep) ==
    IF ss = <<>> THEN <<>>
    ELSE IF Len(ss) = 1 THEN ss[1]
    ELSE ss[1] \o sep \o join_with(Tail(ss), sep)

format_declaration(decl) ==
    trim(decl.name) \o <<":", " ">> \o trim(decl.value)
    \o (IF decl.important THEN <<" ">> \o ImportantMarker ELSE <<>>)
    \o <<";">>

format_declaration_minified(decl) ==
    trim(decl.name) \o <<":">> \o collapse_whitespace(decl.value)
    \o (IF decl.important THEN ImportantMarker ELSE <<>>)

\* the loop `for decl in declarations` of the two pretty renderers
declarations_pretty(decls, level) ==
    Flatten([i \in 1..Len(decls) |->
               indent(level + 1) \o format_declaration(decls[i]) \o <<"\n">>])

render_rule_pretty(rule, level, output) ==
    IF rule.declarations = <<>> THEN output
    ELSE output \o indent(level) \o join_with(rule.selectors, <<",", " ">>)
         \o <<" ", "{", "\n">> \o declarations_pretty(rule.declarations, level)
         \o indent(level) \o <<"}", "\n">>

newline_terminated(output) ==
    IF ends_with(output, <<"\n">>) THEN output ELSE Append(output, "\n")

RECURSIVE render_node_pretty(_, _, _)
RECURSIVE render_children_pretty(_, _, _)
render_children_pretty(children, level, output) ==
    IF children = <<>> THEN output
    ELSE render_children_pretty(Tail(children), level,
            newline_terminated(render_node_pretty(Head(children), level + 1,
                                                  output)))

render_at_rule_pretty(at_rule, level, output) ==
    render_children_pretty(at_rule.children, level,
        output \o indent(level) \o <<"@">> \o at_rule.name
        \o (IF at_rule.params # <<>> THEN <<" ">> \o trim(at_rule.params)
            ELSE <<>>)
        \o <<" ", "{", "\n">>
        \o declarations_pretty(at_rule.declarations, level))
    \o indent(level) \o <<"}", "\n">>

render_node_pretty(node, level, output) ==
    IF node.k = "rule" THEN render_rule_pretty(node, level, output)
    ELSE render_at_rule_pretty(node, level, output)

import_lines(imps) ==
    Flatten([i \in 1..Len(imps) |-> trim(imps[i]) \o <<"\n">>])

\* the loop over stylesheet.nodes of render_pretty
RECURSIVE render_nodes_pretty(_, _)
render_nodes_pretty(ns, output) ==
    IF ns = <<>> THEN output
    ELSE render_nodes_pretty(Tail(ns),
            render_node_pretty(Head(ns), 0, output)
            \o (IF Len(ns) > 1 THEN <<"\n">> ELSE <<>>))

render_pretty(stylesheet) ==
    trim(render_nodes_pretty(stylesheet.nodes,
            import_lines(stylesheet.imports)
            \o (IF stylesheet.imports # <<>> /\ stylesheet.nodes # <<>>
                THEN <<"\n">> ELSE <<>>)))

declarations_minified(decls) ==
    join_with([i \in 1..Len(decls) |-> format_declaration_minified(decls[i])],
              <<";">>)

render_rule_minified(rule, output) ==
    IF rule.declarations = <<>> THEN output
    ELSE output \o join_with(rule.selectors, <<",">>) \o <<"{">>
         \o declarations_minified(rule.declarations) \o <<"}">>

RECURSIVE render_nodes_minified(_, _)
render_at_rule_minified(at_rule, output) ==
    render_nodes_minified(at_rule.children,
        output \o <<"@">> \o at_rule.name
        \o (IF trim(at_rule.params) # <<>>
            THEN <<" ">> \o collapse_whitespace(at_rule.params) ELSE <<>>)
        \o <<"{">> \o declarations_minified(at_rule.declarations))
    \o <<"}">>

render_node_minified(node, output) ==
    IF node.k = "rule" THEN render_rule_minified(node, output)
    ELSE render_at_rule_minified(node, output)

render_nodes_minified(ns, output) ==
    IF ns = <<>> THEN output
    ELSE render_nodes_minified(Tail(ns), render_node_minified(Head(ns), output))

RECURSIVE strip_newlines(_)
strip_newlines(output) ==
    IF output # <<>> /\ output[Len(output)] = "\n"
    THEN strip_newlines(SubSeq(output, 1, Len(output) - 1))
    ELSE output

\* render_minified writing the imports after the nodes
mutant_render_minified_imports_last(stylesheet) ==
    strip_newlines(render_nodes_minified(stylesheet.nodes, <<>>)
                   \o import_lines(stylesheet.imports))

render_minified(stylesheet) ==
    strip_newlines(render_nodes_minified(stylesheet.nodes,
                                         import_lines(stylesheet.imports)))

to_css(m, stylesheet) ==
    IF m THEN render_minified(stylesheet) ELSE render_pretty(stylesheet)

\* ------------------------------------------------------------------------
\* State
\* ------------------------------------------------------------------------

VARIABLES
    \* compile: the stylesheet handed to the evaluator (`ast`), the minify
    \* option as the Serializer is given it, and the CSS text returned
    ast, minify, css,
    \* compile requests still to run, and the outcomes of the finished ones
    queue, results,
    \* Evaluator: the statements evaluate() has not consumed yet, the two
    \* scope stacks, the activations in progress (eval_ruleset, eval_at_rule,
    \* expand_mixin, invoke_detached_ruleset, and the MixinCall arm of
    \* evaluate), and the output being built
    stmts, scopes, mixin_scopes, frames, imports, nodes, status, error,
    \* one declaration value going through eval_declaration
    vinput, vresult, vpc,
    \* a chain of nested rulesets going through combine_selectors
    sparents, schildren, sselectors, sdepth,
    \* compile / compile_file up to the end of import expansion: the call
    \* being served, the files on disk, the ImportResolver (include_paths,
    \* cache, stack), the expand activations in progress, the files read so
    \* far, and the outcome
    request, files, include_paths, calls, stack, cache, reads, istatus, ierror,
    expanded,
    \* LessParser::parse: the source, the cursor's position, the statements
    \* parsed so far, and the outcome with its error
    psource, ppos, pstatements, pstatus, perror

evalVars == <<ast, minify, css, queue, results, stmts, scopes, mixin_scopes,
              frames, imports, nodes, status, error>>

valueVars == <<vinput, vresult, vpc>>

selVars == <<sparents, schildren, sselectors, sdepth>>

impVars == <<request, files, include_paths, calls, stack, cache, reads,
             istatus, ierror, expanded>>

parseVars == <<psource, ppos, pstatements, pstatus, perror>>

vars == <<evalVars, valueVars, selVars, impVars, parseVars>>

notEvalVars == <<valueVars, selVars, impVars, parseVars>>

\* what no step of Evaluator::evaluate touches
notEvaluatorVars == <<notEvalVars, ast, minify, css>>

\* ------------------------------------------------------------------------
\* Evaluator activations
\* ------------------------------------------------------------------------

\* The native call stack is finite: an activation beyond StackLimit frames
\* exhausts it and the process aborts.
StackLimit == 7

Frame(kind, items, selectors, name, params) ==
    [k |-> kind, items |-> items, selectors |-> selectors,
     declarations |-> <<>>, pending_nodes |-> <<>>,
     scoped_declarations |-> <<>>, at_rule_declarations |-> <<>>,
     children |-> <<>>, name |-> name, params |-> params]

\* The activation whose accumulators (&mut declarations, &mut pending_nodes)
\* the innermost frame writes to: expand_mixin and invoke_detached_ruleset
\* write through the references they were handed.
RECURSIVE owner_index(_, _)
owner_index(fs, i) ==
    IF i = 0 THEN 0
    ELSE IF fs[i].k \in {"ruleset", "at_rule", "top_call"} THEN i
    ELSE owner_index(fs, i - 1)

push_declaration_at(fs, o, d) ==
    IF fs[o].k = "at_rule"
    THEN IF fs[o].selectors = <<>>
         THEN [fs EXCEPT ![o].at_rule_declarations = Append(@, d)]
         ELSE [fs EXCEPT ![o].scoped_declarations = Append(@, d)]
    ELSE [fs EXCEPT ![o].declarations = Append(@, d)]

push_declaration(fs, d) == push_declaration_at(fs, owner_index(fs, Len(fs)), d)

extend_pending_at(fs, o, ns) ==
    IF fs[o].k = "at_rule"
    THEN [fs EXCEPT ![o].children = @ \o ns]
    ELSE [fs EXCEPT ![o].pending_nodes = @ \o ns]

extend_pending(fs, ns) == extend_pending_at(fs, owner_index(fs, Len(fs)), ns)

push_scope(sc) == Append(sc, EmptyMap)

pop_frame(fs) == SubSeq(fs, 1, Len(fs) - 1)

mutant_pop_scope_keeps_scope(sc) == sc

pop_scope(sc) ==
    IF sc = <<>> THEN sc ELSE SubSeq(sc, 1, Len(sc) - 1)

Top == frames[Len(frames)]

Item == Head(Top.items)

advance(fs) == [fs EXCEPT ![Len(fs)].items = Tail(@)]

\* An Err travelling up through `?`: every activation returns at once, no
\* scope is popped on the way, and evaluate returns the error.
Fail(e, sc, msc) ==
    /\ status' = "err"
    /\ error' = e
    /\ frames' = <<>>
    /\ scopes' = sc
    /\ mixin_scopes' = msc
    /\ UNCHANGED <<queue, results, stmts, imports, nodes>>

StackOverflow ==
    /\ status' = "stack_overflow"
    /\ error' = "stack_overflow"
    /\ UNCHANGED <<queue, results, stmts, scopes, mixin_scopes, frames,
                   imports, nodes>>

\* expand_mixin up to the loop over the body: positional binding in the new
\* scope, defaults for the tail.  The result carries the stacks as the
\* function leaves them, also on the error paths.
RECURSIVE bind_arguments(_, _, _)
bind_value(sc, args, params, v) ==
    IF ~v.ok THEN [ok |-> FALSE, val |-> sc, err |-> v.err]
    ELSE bind_arguments(set_variable_text(sc, Head(params).name, v.val),
                        Tail(args), Tail(params))

bind_arguments(sc, args, params) ==
    IF args = <<>> THEN Ok(sc)
    ELSE IF Head(args).k = "value"
    THEN bind_value(sc, args, params, eval_value(sc, Head(args).value))
    ELSE bind_arguments(set_variable_ruleset(sc, Head(params).name,
                                             Head(args).body),
                        Tail(args), Tail(params))

\* val is the variable stack; popped is TRUE on the one path that pops
RECURSIVE bind_defaults(_, _)
bind_default(sc, params, v) ==
    IF ~v.ok THEN [ok |-> FALSE, val |-> sc, err |-> v.err, popped |-> FALSE]
    ELSE bind_defaults(set_variable_text(sc, Head(params).name, v.val),
                       Tail(params))

bind_defaults(sc, params) ==
    IF params = <<>>
    THEN [ok |-> TRUE, val |-> sc, err |-> "none", popped |-> FALSE]
    ELSE IF Head(params).default # <<>>
    THEN bind_default(sc, params, eval_value(sc, Head(params).default[1]))
    ELSE [ok |-> FALSE, val |-> pop_scope(sc), err |-> "missing_parameter",
          popped |-> TRUE]

\* The outcome of expand_mixin before its body loop:
\* [ok, scopes, mixin_scopes, err, body]
Entered(ok, sc, msc, e, body) ==
    [ok |-> ok, scopes |-> sc, mixin_scopes |-> msc, err |-> e, body |-> body]

enter_with_defaults(msc1, d, body) ==
    IF ~d.ok
    THEN Entered(FALSE, d.val, IF d.popped THEN pop_scope(msc1) ELSE msc1,
                 d.err, <<>>)
    ELSE Entered(TRUE, d.val, msc1, "none", body)

enter_with_arguments(msc1, a, call, def) ==
    IF ~a.ok THEN Entered(FALSE, a.val, msc1, a.err, <<>>)
    ELSE enter_with_defaults(msc1,
            bind_defaults(a.val, SubSeq(def.params, Len(call.args) + 1,
                                        Len(def.params))),
            def.body)

mutant_enter_definition_ignores_extra_arguments(sc, msc, call, definition) ==
    IF ~definition.ok THEN Entered(FALSE, sc, msc, definition.err, <<>>)
    ELSE enter_with_arguments(push_scope(msc),
            bind_arguments(push_scope(sc),
                           SubSeq(call.args, 1,
                                  IF Len(call.args) > Len(definition.val.params)
                                  THEN Len(definition.val.params)
                                  ELSE Len(call.args)),
                           definition.val.params),
            call, definition.val)

enter_definition(sc, msc, call, definition) ==
    IF ~definition.ok THEN Entered(FALSE, sc, msc, definition.err, <<>>)
    ELSE IF Len(call.args) > Len(definition.val.params)
    THEN Entered(FALSE, sc, msc, "too_many_arguments", <<>>)
    ELSE enter_with_arguments(push_scope(msc),
            bind_arguments(push_scope(sc), call.args, definition.val.params),
            call, definition.val)

expand_mixin_enter(sc, msc, call) ==
    enter_definition(sc, msc, call, resolve_mixin(msc, call.name))

\* ------------------------------------------------------------------------
\* Evaluator::evaluate, one statement per step
\* ------------------------------------------------------------------------

AtTopLevel == status = "running" /\ frames = <<>> /\ stmts # <<>>

InBody == status = "running" /\ frames # <<>> /\ Top.items # <<>>

AtReturn(kind) ==
    status = "running" /\ frames # <<>> /\ Top.items = <<>> /\ Top.k = kind

\* A callee's nodes reach the caller's list: evaluate's `nodes` when no
\* activation is left, the owner's pending list otherwise.
Deliver(fs, ns) ==
    IF fs = <<>>
    THEN /\ nodes' = nodes \o ns
         /\ frames' = fs
    ELSE /\ frames' = extend_pending(fs, ns)
         /\ UNCHANGED nodes

EvaluateImport ==
    /\ UNCHANGED notEvaluatorVars
    /\ AtTopLevel
    /\ Head(stmts).t = "import"
    /\ imports' = Append(imports, Head(stmts).raw)
    /\ stmts' = Tail(stmts)
    /\ UNCHANGED <<queue, results, scopes, mixin_scopes, frames, nodes, status,
                   error>>

EvaluateVariableTo(value) ==
    IF value.ok
    THEN /\ scopes' = set_variable_text(scopes, Head(stmts).name, value.val)
         /\ stmts' = Tail(stmts)
         /\ UNCHANGED <<queue, results, mixin_scopes, frames, imports, nodes,
                        status, error>>
    ELSE Fail(value.err, scopes, mixin_scopes)

EvaluateVariable ==
    /\ UNCHANGED notEvaluatorVars
    /\ AtTopLevel
    /\ Head(stmts).t = "var"
    /\ EvaluateVariableTo(eval_value(scopes, Head(stmts).value))

EvaluateRuleSet ==
    /\ UNCHANGED notEvaluatorVars
    /\ AtTopLevel
    /\ Head(stmts).t = "rule"
    /\ stmts' = Tail(stmts)
    /\ scopes' = push_scope(scopes)
    /\ mixin_scopes' = push_scope(mixin_scopes)
    /\ frames' = <<Frame("ruleset", Head(stmts).body,
                         combine_selectors(<<>>, Head(stmts).selectors),
                         "", "")>>
    /\ UNCHANGED <<queue, results, imports, nodes, status, error>>

EvaluateAtRule ==
    /\ UNCHANGED notEvaluatorVars
    /\ AtTopLevel
    /\ Head(stmts).t = "at_rule"
    /\ stmts' = Tail(stmts)
    /\ scopes' = push_scope(scopes)
    /\ mixin_scopes' = push_scope(mixin_scopes)
    /\ frames' = <<Frame("at_rule", Head(stmts).body, <<>>, Head(stmts).name,
                         Head(stmts).params)>>
    /\ UNCHANGED <<queue, results, imports, nodes, status, error>>

EvaluateMixinDefinition ==
    /\ UNCHANGED notEvaluatorVars
    /\ AtTopLevel
    /\ Head(stmts).t = "mixin_def"
    /\ mixin_scopes' = set_mixin(mixin_scopes, Head(stmts).def)
    /\ stmts' = Tail(stmts)
    /\ UNCHANGED <<queue, results, scopes, frames, imports, nodes, status, error>>

EvaluateMixinCallEntered(e) ==
    IF e.ok
    THEN /\ stmts' = Tail(stmts)
         /\ scopes' = e.scopes
         /\ mixin_scopes' = e.mixin_scopes
         /\ frames' = <<Frame("top_call", <<>>, <<>>, "", ""),
                        Frame("mixin", e.body, <<>>, Head(stmts).name, "")>>
         /\ UNCHANGED <<queue, results, imports, nodes, status, error>>
    ELSE Fail(e.err, e.scopes, e.mixin_scopes)

EvaluateMixinCall ==
    /\ UNCHANGED notEvaluatorVars
    /\ AtTopLevel
    /\ Head(stmts).t = "mixin_call"
    /\ EvaluateMixinCallEntered(expand_mixin_enter(scopes, mixin_scopes,
                                                   Head(stmts)))

\* The MixinCall arm of evaluate after expand_mixin has returned:
\* `declarations` and `produced` are the accumulators of the call.
mutant_top_level_call_result_drops_declarations(f) == Ok(f.pending_nodes)

top_level_call_result(f) ==
    IF f.declarations # <<>> THEN Err("dangling_declarations")
    ELSE Ok(f.pending_nodes)

EvaluateMixinCallReturnTo(produced) ==
    IF ~produced.ok THEN Fail(produced.err, scopes, mixin_scopes)
    ELSE /\ nodes' = nodes \o produced.val
         /\ frames' = <<>>
         /\ UNCHANGED <<queue, results, stmts, scopes, mixin_scopes, imports,
                        status, error>>

EvaluateMixinCallReturn ==
    /\ UNCHANGED notEvaluatorVars
    /\ AtReturn("top_call")
    /\ EvaluateMixinCallReturnTo(top_level_call_result(Top))

\* Ok(EvaluatedStylesheet { imports, nodes }), and the rest of compile:
\* Serializer::new(minify).to_css(&stylesheet).  Nothing before this point
\* reads options.minify (Evaluator::new drops the options), so the option
\* is drawn here.
EvaluateReturn ==
    /\ UNCHANGED <<notEvalVars, ast>>
    /\ status = "running"
    /\ frames = <<>>
    /\ stmts = <<>>
    /\ status' = "ok"
    /\ \E m \in BOOLEAN :
         /\ minify' = m
         /\ css' = to_css(m, EvaluatedStylesheet(imports, nodes))
    /\ UNCHANGED <<queue, results, stmts, scopes, mixin_scopes, frames, imports,
                   nodes, error>>

\* ------------------------------------------------------------------------
\* Body items: handle_rule_body_item, and the same match inside eval_at_rule
\* ------------------------------------------------------------------------

HandleVariableTo(value) ==
    IF value.ok
    THEN /\ scopes' = set_variable_text(scopes, Item.name, value.val)
         /\ frames' = advance(frames)
         /\ UNCHANGED <<queue, results, stmts, mixin_scopes, imports, nodes,
                        status, error>>
    ELSE Fail(value.err, scopes, mixin_scopes)

HandleVariable ==
    /\ UNCHANGED notEvaluatorVars
    /\ InBody
    /\ Item.t = "var"
    /\ HandleVariableTo(eval_value(scopes, Item.value))

HandleDeclarationTo(evaluated) ==
    IF evaluated.ok
    THEN /\ frames' = push_declaration(advance(frames), evaluated.val)
         /\ UNCHANGED <<queue, results, stmts, scopes, mixin_scopes, imports,
                        nodes, status, error>>
    ELSE Fail(evaluated.err, scopes, mixin_scopes)

HandleDeclaration ==
    /\ UNCHANGED notEvaluatorVars
    /\ InBody
    /\ Item.t = "decl"
    /\ HandleDeclarationTo(eval_declaration(scopes, Item))

HandleNestedRule ==
    /\ UNCHANGED notEvaluatorVars
    /\ InBody
    /\ Item.t = "rule"
    /\ IF Len(frames) >= StackLimit THEN StackOverflow
       ELSE /\ scopes' = push_scope(scopes)
            /\ mixin_scopes' = push_scope(mixin_scopes)
            /\ frames' = Append(advance(frames),
                                Frame("ruleset", Item.body,
                                      combine_selectors(Top.selectors,
                                                        Item.selectors),
                                      "", ""))
            /\ UNCHANGED <<queue, results, stmts, imports, nodes, status, error>>

HandleMixinDefinition ==
    /\ UNCHANGED notEvaluatorVars
    /\ InBody
    /\ Item.t = "mixin_def"
    /\ mixin_scopes' = set_mixin(mixin_scopes, Item.def)
    /\ frames' = advance(frames)
    /\ UNCHANGED <<queue, results, stmts, scopes, imports, nodes, status, error>>

HandleMixinCallEntered(e) ==
    IF e.ok
    THEN /\ scopes' = e.scopes
         /\ mixin_scopes' = e.mixin_scopes
         /\ frames' = Append(advance(frames),
                             Frame("mixin", e.body, Top.selectors, Item.name, ""))
         /\ UNCHANGED <<queue, results, stmts, imports, nodes, status, error>>
    ELSE Fail(e.err, e.scopes, e.mixin_scopes)

HandleMixinCall ==
    /\ UNCHANGED notEvaluatorVars
    /\ InBody
    /\ Item.t = "mixin_call"
    /\ IF Len(frames) >= StackLimit THEN StackOverflow
       ELSE HandleMixinCallEntered(expand_mixin_enter(scopes, mixin_scopes, Item))

HandleAtRule ==
    /\ UNCHANGED notEvaluatorVars
    /\ InBody
    /\ Item.t = "at_rule"
    /\ IF Len(frames) >= StackLimit THEN StackOverflow
       ELSE /\ scopes' = push_scope(scopes)
            /\ mixin_scopes' = push_scope(mixin_scopes)
            /\ frames' = Append(advance(frames),
                                Frame("at_rule", Item.body, Top.selectors,
                                      Item.name, Item.params))
            /\ UNCHANGED <<queue, results, stmts, imports, nodes, status, error>>

HandleDetachedCallOf(body) ==
    IF body.ok
    THEN /\ frames' = Append(advance(frames),
                             Frame("detached", body.val, Top.selectors, "", ""))
         /\ UNCHANGED <<queue, results, stmts, scopes, mixin_scopes, imports,
                        nodes, status, error>>
    ELSE Fail(body.err, scopes, mixin_scopes)

\* invoke_detached_ruleset giving the body a scope of its own
mutant_HandleDetachedCall_pushes_scope ==
    /\ UNCHANGED notEvaluatorVars
    /\ InBody
    /\ Item.t = "detached_call"
    /\ IF Len(frames) >= StackLimit THEN StackOverflow
       ELSE IF resolve_ruleset_variable(scopes, Item.name).ok
       THEN /\ frames' = Append(advance(frames),
                   Frame("detached",
                         resolve_ruleset_variable(scopes, Item.name).val,
                         Top.selectors, "", ""))
            /\ scopes' = push_scope(scopes)
            /\ mixin_scopes' = push_scope(mixin_scopes)
            /\ UNCHANGED <<queue, results, stmts, imports, nodes, status, error>>
       ELSE Fail(resolve_ruleset_variable(scopes, Item.name).err, scopes,
                 mixin_scopes)

HandleDetachedCall ==
    /\ UNCHANGED notEvaluatorVars
    /\ InBody
    /\ Item.t = "detached_call"
    /\ IF Len(frames) >= StackLimit THEN StackOverflow
       ELSE HandleDetachedCallOf(resolve_ruleset_variable(scopes, Item.name))

\* ------------------------------------------------------------------------
\* Returns
\* ------------------------------------------------------------------------

mutant_ruleset_output_keeps_empty(f) ==
    <<EvaluatedRule(f.selectors, f.declarations)>> \o f.pending_nodes

mutant_ruleset_output_nested_first(f) ==
    f.pending_nodes
    \o (IF f.declarations # <<>>
        THEN <<EvaluatedRule(f.selectors, f.declarations)>> ELSE <<>>)

ruleset_output(f) ==
    (IF f.declarations # <<>>
     THEN <<EvaluatedRule(f.selectors, f.declarations)>> ELSE <<>>)
    \o f.pending_nodes

EvalRulesetReturn ==
    /\ UNCHANGED notEvaluatorVars
    /\ AtReturn("ruleset")
    /\ Deliver(pop_frame(frames), ruleset_output(Top))
    /\ mixin_scopes' = pop_scope(mixin_scopes)
    /\ scopes' = pop_scope(scopes)
    /\ UNCHANGED <<queue, results, stmts, imports, status, error>>

scoped_nodes(f) ==
    (IF f.selectors # <<>> /\ f.scoped_declarations # <<>>
     THEN <<EvaluatedRule(f.selectors, f.scoped_declarations)>> ELSE <<>>)
    \o f.children

mutant_at_rule_output_keeps_declarations(f) ==
    EvaluatedAtRule(f.name, f.params,
                    f.at_rule_declarations \o f.scoped_declarations, f.children)

at_rule_output(f) ==
    EvaluatedAtRule(f.name, f.params,
                    IF f.selectors = <<>> THEN f.at_rule_declarations ELSE <<>>,
                    scoped_nodes(f))

EvalAtRuleReturn ==
    /\ UNCHANGED notEvaluatorVars
    /\ AtReturn("at_rule")
    /\ Deliver(pop_frame(frames), <<at_rule_output(Top)>>)
    /\ mixin_scopes' = pop_scope(mixin_scopes)
    /\ scopes' = pop_scope(scopes)
    /\ UNCHANGED <<queue, results, stmts, imports, status, error>>

ExpandMixinReturn ==
    /\ UNCHANGED notEvaluatorVars
    /\ AtReturn("mixin")
    /\ frames' = pop_frame(frames)
    /\ mixin_scopes' = pop_scope(mixin_scopes)
    /\ scopes' = pop_scope(scopes)
    /\ UNCHANGED <<queue, results, stmts, imports, nodes, status, error>>

InvokeDetachedReturn ==
    /\ UNCHANGED notEvaluatorVars
    /\ AtReturn("detached")
    /\ frames' = pop_frame(frames)
    /\ UNCHANGED <<queue, results, stmts, scopes, mixin_scopes, imports, nodes,
                   status, error>>

\* ------------------------------------------------------------------------
\* compile, one request after the other (each with a fresh Evaluator)
\* ------------------------------------------------------------------------

Finished == status \in {"ok", "err", "stack_overflow"}

Outcome == [status |-> status, error |-> error, imports |-> imports,
            nodes |-> nodes]

Compile ==
    /\ UNCHANGED notEvalVars
    /\ Finished
    /\ status # "stack_overflow"          \* an aborted process compiles nothing more
    /\ queue # <<>>
    /\ results' = Append(results, Outcome)
    /\ queue' = Tail(queue)
    /\ ast' = Head(queue)
    /\ minify' = FALSE
    /\ css' = <<>>
    /\ stmts' = Head(queue)
    /\ scopes' = <<EmptyMap>>
    /\ mixin_scopes' = <<EmptyMap>>
    /\ frames' = <<>>
    /\ imports' = <<>>
    /\ nodes' = <<>>
    /\ status' = "running"
    /\ error' = "none"

\* ------------------------------------------------------------------------
\* The stylesheets compiled
\* ------------------------------------------------------------------------

MaxBody == 2

MaxNum == 3

Px == <<"p", "x">>
Em == <<"e", "m">>

Nums == {NatText(i) : i \in 0..MaxNum} \cup {<<"1", ".", "5">>}

Signs == {<<>>, <<"-">>, <<"+">>}

Units == {<<>>, Px, Em, <<"%">>}

Na == <<"a">>
Nb == <<"b">>
Nr == <<"r">>
Pp == <<"p">>
Pq == <<"q">>
V1px == <<Literal(<<"1", "p", "x">>)>>
V2px == <<Literal(<<"2", "p", "x">>)>>
Va == <<VariableRef(Na)>>
Vb == <<VariableRef(Nb)>>
SelA == <<"a">>
SelB == <<"b">>
SelX == <<"x">>
SelY == <<"y">>
SelC == <<"c">>
SelD == <<"d">>
SelHover == <<"&", ":", "h">>
Media == <<"m", "e", "d", "i", "a">>
MediaParams == <<"(", "w", ")">>

LeafItems ==
    { Declaration(Pp, V1px),
      Declaration(Pq, Va),
      VariableDeclaration(Na, V2px),
      VariableDeclaration(Nb, Va),
      MixinCall(".m", <<>>),
      MixinCall(".m", <<ArgValue(Va)>>),
      MixinCall(".m", <<ArgRuleset(<<VariableDeclaration(Na, V2px),
                                     Declaration(Pp, Va)>>)>>),
      MixinDefinition(".m", <<>>, <<Declaration(Pp, V2px)>>),
      RuleSet(<<SelC>>, <<Declaration(Pp, V1px)>>),
      RuleSet(<<SelHover, SelC>>, <<RuleSet(<<SelD>>, <<Declaration(Pq, Va)>>)>>),
      AtRule(Media, MediaParams,
             <<Declaration(Pq, V2px), RuleSet(<<SelC>>, <<Declaration(Pp, V1px)>>)>>) }

RECURSIVE SeqsUpTo(_, _)
SeqsUpTo(S, n) ==
    IF n = 0 THEN {<<>>}
    ELSE LET shorter == SeqsUpTo(S, n - 1)
         IN  shorter \cup {Append(b, x) : b \in shorter, x \in S}

Bodies == SeqsUpTo(LeafItems, MaxBody)

Mains ==
    {RuleSet(<<SelX, SelY>>, b) : b \in Bodies}
    \cup {AtRule(Media, MediaParams, b) : b \in Bodies}
    \cup {MixinCall(".m", <<>>), MixinCall(".m", <<ArgValue(V1px), ArgValue(V2px),
                                                   ArgValue(V1px)>>)}

Target(stem, ext) == [stem |-> stem, ext |-> ext]

\* The imports of plain CSS, as parse_import leaves them:
\* @import (CSS) "r.css";   @import url(s.css);   @import "t.css" ;
CssImport ==
    parse_import(<<" ", "(", "C", "S", "S", ")", " ", "\"", "r", ".", "c", "s", "s",
        "\"">>).val

CssImportUrl ==
    parse_import(<<" ", "u", "r", "l", "(", "s", ".", "c", "s", "s", ")">>).val

CssImportByExtension ==
    parse_import(<<" ", "\"", "t", ".", "c", "s", "s", "\"", " ">>).val

CssImports == {CssImport, CssImportUrl, CssImportByExtension}

MixinPlain ==
    MixinDefinition(".m", <<>>,
        <<Declaration(Pp, V1px), RuleSet(<<SelC>>, <<Declaration(Pq, V2px)>>)>>)

MixinRequired ==
    MixinDefinition(".m", <<MixinParam(Na, <<>>)>>, <<Declaration(Pp, Va)>>)

MixinDefaults ==
    MixinDefinition(".m", <<MixinParam(Na, <<V1px>>), MixinParam(Nb, <<Va>>)>>,
        <<Declaration(Pp, Vb)>>)

MixinSelfCall == MixinDefinition(".m", <<>>, <<MixinCall(".m", <<>>)>>)

MixinCallsN == MixinDefinition(".m", <<>>, <<MixinCall(".n", <<>>)>>)

MixinNCallsM == MixinDefinition(".n", <<>>, <<MixinCall(".m", <<>>)>>)

MixinInvoker ==
    MixinDefinition(".m", <<MixinParam(Nr, <<>>)>>,
        <<DetachedCall(Nr), Declaration(Pq, Va)>>)

MixinNestedOnly ==
    MixinDefinition(".m", <<>>,
        <<RuleSet(<<SelC>>, <<Declaration(Pp, V1px)>>),
          AtRule(Media, MediaParams, <<Declaration(Pq, V2px)>>)>>)

\* .m(@r) { c { @r: 2px; q: @r; @r(); } }: the parameter is shadowed by a
\* text variable of the nested ruleset
Vr == <<VariableRef(Nr)>>

MixinShadowing ==
    MixinDefinition(".m", <<MixinParam(Nr, <<>>)>>,
        <<RuleSet(<<SelC>>, <<VariableDeclaration(Nr, V2px), Declaration(Pq, Vr),
                              DetachedCall(Nr)>>)>>)

\* .m(@a) { @{a}: 1px }
MixinInterpolated ==
    MixinDefinition(".m", <<MixinParam(Na, <<>>)>>,
        <<Declaration(<<"@", "{", "a", "}">>, V1px)>>)

Environments ==
    { <<>>,
      <<VariableDeclaration(Na, V1px), VariableDeclaration(Nr, V1px), MixinInvoker>>,
      <<MixinShadowing>>,
      <<VariableDeclaration(Na, V1px), MixinInterpolated>>,
      <<CssImport, VariableDeclaration(Na, V1px), MixinPlain>>,
      <<VariableDeclaration(Na, V1px), VariableDeclaration(Nb, Va), MixinRequired>>,
      <<MixinDefaults>>,
      <<VariableDeclaration(Na, V1px), MixinSelfCall>>,
      <<VariableDeclaration(Na, V1px), MixinCallsN, MixinNCallsM>>,
      <<VariableDeclaration(Na, V1px), MixinInvoker>>,
      <<VariableDeclaration(Na, V1px), MixinNestedOnly>>,
      <<VariableDeclaration(Nb, Va)>> }

\* @a: <x><u>; .r { v: (@a + <y><u>) } as the parser hands it over: the
\* variable's value is one literal, the declaration's value is the pieces
\* `(`, @a and ` + <y><u>)`.
DotR == <<".", "r">>
Pv == <<"v">>

SumSheet(x, y, u) ==
    << VariableDeclaration(Na, <<Literal(x \o u)>>),
       RuleSet(<<DotR>>,
          <<Declaration(Pv, <<Literal(<<"(">>), VariableRef(Na),
                              Literal(<<" ", "+", " ">> \o y \o u \o <<")">>)>>)>>) >>

\* the numbers of the sums, as text and counted in halves
SumNumbers ==
    {[text |-> sg.text \o NatText(i), halves |-> sg.factor * 2 * i] :
        sg \in {[text |-> <<>>, factor |-> 1], [text |-> <<"-">>, factor |-> -1]},
        i \in 0..MaxNum}
    \cup {[text |-> <<"1", ".", "5">>, halves |-> 3],
          [text |-> <<"-", "1", ".", "5">>, halves |-> -3]}

SumSheets ==
    {SumSheet(x.text, y.text, u) : x \in SumNumbers, y \in SumNumbers, u \in Units}

\* Imports before, between and after the rules.
ImportSheets ==
    LET rules == { RuleSet(<<SelX, SelY>>, <<Declaration(Pp, V1px)>>),
                   AtRule(Media, MediaParams, <<Declaration(Pq, V2px)>>) }
    IN  {<<i1, i2>> : i1 \in CssImports, i2 \in CssImports}
        \cup {<<i1, m, i2>> : i1 \in CssImports, m \in rules, i2 \in CssImports}
        \cup {<<m, i1, n>> : m \in rules, i1 \in CssImports, n \in rules}

\* A top-level call of .m between two rules.
CallBetween(definition) ==
    << definition,
       RuleSet(<<SelX, SelY>>, <<Declaration(Pp, V1px)>>),
       MixinCall(".m", <<>>),
       RuleSet(<<SelD>>, <<Declaration(Pq, V2px)>>) >>

CallSheets == {CallBetween(MixinNestedOnly), CallBetween(MixinPlain)}

\* Bindings of @a and .m shadowed inside an activation and looked up again
\* after it:  @a: 1px; .m() { p: 1px }  x, y { <inner>  q: @a; .m(); }
\* where <inner> binds @a: 2px and .m() { p: 2px } in a nested ruleset, in an
\* at-rule, or in the expansion of a mixin .n; and the same without the
\* outer bindings.
MixinOuter == MixinDefinition(".m", <<>>, <<Declaration(Pp, V1px)>>)

ShadowingBody ==
    << VariableDeclaration(Na, V2px),
       MixinDefinition(".m", <<>>, <<Declaration(Pp, V2px)>>),
       Declaration(Pq, Va),
       MixinCall(".m", <<>>) >>

ShadowedLookups == <<Declaration(Pq, Va), MixinCall(".m", <<>>)>>

ShadowInRuleset ==
    << VariableDeclaration(Na, V1px), MixinOuter,
       RuleSet(<<SelX, SelY>>, <<RuleSet(<<SelC>>, ShadowingBody)>> \o ShadowedLookups) >>

ShadowInAtRule ==
    << VariableDeclaration(Na, V1px), MixinOuter,
       RuleSet(<<SelX, SelY>>,
               <<AtRule(Media, MediaParams, ShadowingBody)>> \o ShadowedLookups) >>

ShadowInMixin ==
    << VariableDeclaration(Na, V1px), MixinOuter,
       MixinDefinition(".n", <<>>, ShadowingBody),
       RuleSet(<<SelX, SelY>>, <<MixinCall(".n", <<>>)>> \o ShadowedLookups) >>

ShadowOfNothing ==
    { <<RuleSet(<<SelX, SelY>>, <<RuleSet(<<SelC>>, ShadowingBody), lookup>>)>> :
        lookup \in {Declaration(Pq, Va), MixinCall(".m", <<>>)} }

ShadowSheets ==
    {ShadowInRuleset, ShadowInAtRule, ShadowInMixin} \cup ShadowOfNothing

\* @a: 1px; @b: 2px; .m(@a, @b) { p: @a; q: @b }  x, y { .m(@b, @a); }
SwapSheet ==
    << VariableDeclaration(Na, V1px), VariableDeclaration(Nb, V2px),
       MixinDefinition(".m", <<MixinParam(Na, <<>>), MixinParam(Nb, <<>>)>>,
                       <<Declaration(Pp, Va), Declaration(Pq, Vb)>>),
       RuleSet(<<SelX, SelY>>, <<MixinCall(".m", <<ArgValue(Vb), ArgValue(Va)>>)>>) >>

\* @a: 1px;  .m(@r) { @r(); q: @a; .n(); }
\* x, y { .m({ @a: 2px; .n() { p: 2px } }); <after> }
\* The detached ruleset defines a variable and a mixin that the mixin's body
\* uses after invoking it; <after> is what the caller tries next.
MixinInvokerUsing ==
    MixinDefinition(".m", <<MixinParam(Nr, <<>>)>>,
        <<DetachedCall(Nr), Declaration(Pq, Va), MixinCall(".n", <<>>)>>)

DefiningBody ==
    <<VariableDeclaration(Na, V2px),
      MixinDefinition(".n", <<>>, <<Declaration(Pp, V2px)>>)>>

DetachedSheet(after) ==
    << VariableDeclaration(Na, V1px), MixinInvokerUsing,
       RuleSet(<<SelX, SelY>>,
               <<MixinCall(".m", <<ArgRuleset(DefiningBody)>>), after>>) >>

DetachedSheets ==
    { DetachedSheet(Declaration(Pq, Va)), DetachedSheet(MixinCall(".n", <<>>)),
      DetachedSheet(DetachedCall(Nr)) }

Stylesheets ==
    {e \o <<m>> : e \in Environments, m \in Mains} \cup SumSheets
    \cup ImportSheets \cup CallSheets \cup ShadowSheets \cup {SwapSheet}
    \cup DetachedSheets

\* The same stylesheet with one sibling variable declaration of the main
\* body moved across its neighbour (a mixin call or another variable
\* declaration).
SwapAt(b, i) ==
    [j \in 1..Len(b) |-> IF j = i THEN b[i + 1] ELSE IF j = i + 1 THEN b[i] ELSE b[j]]

Reorderings(sheet) ==
    LET main == sheet[Len(sheet)]
    IN  IF main.t \notin {"rule", "at_rule"} THEN {}
        ELSE { [sheet EXCEPT ![Len(sheet)].body = SwapAt(main.body, i)] :
                 i \in { j \in 1..(Len(main.body) - 1) :
                           /\ main.body[j] # main.body[j + 1]
                           /\ {main.body[j].t, main.body[j + 1].t}
                                \in {{"var"}, {"var", "mixin_call"}} } }

EvalIdle ==
    /\ ast = <<>> /\ minify = FALSE /\ css = <<>>
    /\ queue = <<>> /\ results = <<>> /\ stmts = <<>>
    /\ scopes = <<EmptyMap>> /\ mixin_scopes = <<EmptyMap>>
    /\ frames = <<>> /\ imports = <<>> /\ nodes = <<>>
    /\ status = "ok" /\ error = "none"

NoParseError == [message |-> "none", position |-> 0]

ParseIdle ==
    /\ psource = <<>> /\ ppos = 0 /\ pstatements = <<>>
    /\ pstatus = "ok" /\ perror = NoParseError

ValueIdle == vinput = <<>> /\ vresult = Ok(<<>>) /\ vpc = "idle"

SelIdle == sparents = <<>> /\ schildren = <<>> /\ sselectors = <<>> /\ sdepth = 0

NoRequest ==
    [kind |-> "none", path |-> <<>>, source |-> <<>>, current_dir |-> <<>>,
     include_paths |-> <<>>]

ImpIdle ==
    /\ request = NoRequest /\ files = EmptyMap /\ include_paths = <<>>
    /\ calls = <<>> /\ stack = <<>> /\ cache = EmptyMap /\ reads = <<>>
    /\ istatus = "idle" /\ ierror = "none" /\ expanded = <<>>

Init ==
    /\ ParseIdle
    /\ \E sheet \in Stylesheets :
         /\ ast = sheet
         /\ stmts = sheet
         /\ queue \in {<<>>} \cup {<<q>> : q \in Reorderings(sheet)}
    /\ results = <<>>
    /\ scopes = <<EmptyMap>>
    /\ mixin_scopes = <<EmptyMap>>
    /\ frames = <<>>
    /\ imports = <<>>
    /\ nodes = <<>>
    /\ status = "running"
    /\ error = "none"
    /\ minify = FALSE
    /\ css = <<>>
    /\ ValueIdle
    /\ SelIdle
    /\ ImpIdle

Next ==
    \/ Compile
    \/ EvaluateImport
    \/ EvaluateVariable
    \/ EvaluateRuleSet
    \/ EvaluateAtRule
    \/ EvaluateMixinDefinition
    \/ EvaluateMixinCall
    \/ EvaluateMixinCallReturn
    \/ EvaluateReturn
    \/ HandleVariable
    \/ HandleDeclaration
    \/ HandleNestedRule
    \/ HandleMixinDefinition
    \/ HandleMixinCall
    \/ HandleAtRule
    \/ HandleDetachedCall
    \/ EvalRulesetReturn
    \/ EvalAtRuleReturn
    \/ ExpandMixinReturn
    \/ InvokeDetachedReturn

Spec == Init /\ [][Next]_vars

without_whitespace(s) == SelectSeq(s, LAMBDA c : ~is_whitespace(c))

\* a number of halves written as CSS writes it: -3 halves is -1.5
halves_text(h) ==
    (IF h < 0 THEN <<"-">> ELSE <<>>) \o NatText(Abs(h) \div 2)
    \o (IF Abs(h) % 2 = 1 THEN <<".", "5">> ELSE <<>>)

C17_TopLevelMixinCall ==
    [][ AtReturn("top_call") =>
          IF Top.declarations # <<>>
          THEN status' = "err" /\ nodes' = nodes /\ css' = css
          ELSE /\ status' = "running"
               /\ nodes' = nodes \o Top.pending_nodes
               /\ stmts' = stmts ]_vars

\* .m() { c { p: 1px } @media (w) { q: 2px } }  x, y { p: 1px }  .m();
\* d { q: 2px } compiled: the mixin's nodes stand between the two rules
C17_Witness ==
    /\ status = "ok"
    /\ ast = CallBetween(MixinNestedOnly)
    /\ nodes = << EvaluatedRule(<<SelX, SelY>>,
                     <<EvaluatedDeclaration(Pp, <<"1", "p", "x">>, FALSE)>>),
                  EvaluatedRule(<<SelC>>,
                     <<EvaluatedDeclaration(Pp, <<"1", "p", "x">>, FALSE)>>),
                  EvaluatedAtRule(Media, MediaParams,
                     <<EvaluatedDeclaration(Pq, <<"2", "p", "x">>, FALSE)>>, <<>>),
                  EvaluatedRule(<<SelD>>,
                     <<EvaluatedDeclaration(Pq, <<"2", "p", "x">>, FALSE)>>) >>

\* The kind of the innermost binding of a name, written without
\* lookup_variable: the binding of the highest scope that has one.
bound_at(sc, name) == {i \in 1..Len(sc) : name \in DOMAIN sc[i]}

innermost_kind(sc, name) ==
    IF bound_at(sc, name) = {} THEN "unbound"
    ELSE sc[CHOOSE i \in bound_at(sc, name) :
               \A j \in bound_at(sc, name) : j <= i][name].k

\* the item refers to @name as text: in its value or as @{name} in its
\* property name
text_reference(item, name) ==
    \/ \E i \in 1..Len(item.value) :
          item.value[i].k = "ref" /\ item.value[i].text = name
    \/ item.t = "decl" /\ contains(item.name, <<"@", "{">> \o name \o <<"}">>)

VariableNames == {Na, Nb, Nr}

\* C18: invoking @name(); when the innermost binding of @name is a text
\* value is an evaluation error, and so is a reference to @name as text (in
\* a value or in a property-name interpolation) when its innermost binding
\* is a detached ruleset; a binding further out does not matter: the
\* invocation of an innermost detached ruleset goes ahead, and a reference
\* whose names are all innermost text is not refused for its kind.
C18_KindOfInnermostBinding ==
    [][ /\ (InBody /\ Item.t = "detached_call" /\ Len(frames) < StackLimit) =>
             /\ innermost_kind(scopes, Item.name) = "text"
                   => status' = "err" /\ error' = "variable_not_ruleset"
             /\ innermost_kind(scopes, Item.name) = "ruleset"
                   => status' = "running" /\ Len(frames') = Len(frames) + 1
        /\ (InBody /\ Item.t \in {"decl", "var"}) =>
             /\ (\E n \in VariableNames :
                    /\ text_reference(Item, n)
                    /\ innermost_kind(scopes, n) = "ruleset")
                   => status' = "err"
             /\ (\A n \in VariableNames :
                    text_reference(Item, n) => innermost_kind(scopes, n) = "text")
                   => error' # "variable_not_text" ]_vars

\* inside .m(@r) called with a detached ruleset, in c { @r: 2px; ... }: the
\* evaluation stands before @r(); the parameter is a detached ruleset, the
\* innermost @r is text
C18_Witness ==
    /\ InBody
    /\ Item.t = "detached_call"
    /\ Len(scopes) >= 2
    /\ innermost_kind(scopes, Item.name) = "text"
    /\ innermost_kind(SubSeq(scopes, 1, Len(scopes) - 1), Item.name) = "ruleset"

\* The innermost binding of a name in a scope stack, <<>> when no scope
\* binds it; written without lookup_variable and resolve_mixin.
innermost_binding(sc, name) ==
    IF bound_at(sc, name) = {} THEN <<>>
    ELSE <<sc[CHOOSE i \in bound_at(sc, name) :
                 \A j \in bound_at(sc, name) : j <= i][name]>>

\* The step from stack `old` to stack `new` leaves every scope below the
\* innermost one as it was: a definition changes the innermost scope only,
\* an entry adds a scope, an exit removes one.
enclosing_kept(old, new) ==
    /\ Len(new) \in {Len(old) - 1, Len(old), Len(old) + 1}
    /\ \A i \in 1..Len(old) :
          (i <= Len(new) /\ (i < Len(old) \/ Len(new) > Len(old)))
              => new[i] = old[i]

\* scope `new` is scope `old` with `name` bound anew, everything else kept
rebinds(old, new, name) ==
    /\ DOMAIN new = DOMAIN old \cup {name}
    /\ \A n \in DOMAIN old \ {name} : new[n] = old[n]

\* C23: a variable or mixin lookup returns the binding of the innermost
\* scope that defines the name (and fails as undefined when none does); a
\* variable or mixin definition inside a ruleset, mixin expansion or at-rule
\* writes the innermost scope only, overwriting the name's binding there;
\* entries and exits leave the enclosing scopes unchanged, so after an
\* activation exits the enclosing bindings are what lookups return.
C23_InnermostScopeBindings ==
    [][ status = "running" =>
        /\ enclosing_kept(scopes, scopes')
        /\ enclosing_kept(mixin_scopes, mixin_scopes')
        /\ (InBody /\ Item.t = "var" /\ status' = "running") =>
              /\ rebinds(scopes[Len(scopes)], scopes'[Len(scopes)], Item.name)
              /\ scopes'[Len(scopes)][Item.name].k = "text"
              /\ mixin_scopes' = mixin_scopes
        /\ (InBody /\ Item.t = "mixin_def") =>
              /\ rebinds(mixin_scopes[Len(mixin_scopes)],
                         mixin_scopes'[Len(mixin_scopes)], Item.def.name)
              /\ mixin_scopes'[Len(mixin_scopes)][Item.def.name] = Item.def
              /\ scopes' = scopes
        /\ \A n \in VariableNames :
              (InBody /\ Item.t \in {"var", "decl"} /\ Item.value = <<VariableRef(n)>>) =>
                 IF innermost_binding(scopes, n) = <<>>
                 THEN status' = "err" /\ error' = "undefined_variable"
                 ELSE innermost_binding(scopes, n)[1].k = "text" =>
                        IF Item.t = "var"
                        THEN scopes'[Len(scopes)][Item.name]
                                = innermost_binding(scopes, n)[1]
                        ELSE frames'
                                = push_declaration(advance(frames),
                                     EvaluatedDeclaration(Item.name,
                                        innermost_binding(scopes, n)[1].text, FALSE))
        /\ (InBody /\ Item.t = "mixin_call" /\ Len(frames) < StackLimit) =>
              IF innermost_binding(mixin_scopes, Item.name) = <<>>
              THEN status' = "err" /\ error' = "undefined_mixin"
              ELSE status' = "running" =>
                     /\ frames'[Len(frames')].k = "mixin"
                     /\ frames'[Len(frames')].items
                          = innermost_binding(mixin_scopes, Item.name)[1].body
      ]_vars

\* @a: 1px; .m() { p: 1px }  x, y { c { @a: 2px; .m() { p: 2px }  q: @a; .m(); }
\* q: @a; .m(); } compiled: inside c the inner bindings, after c the outer ones
C23_Witness ==
    /\ status = "ok"
    /\ ast = ShadowInRuleset
    /\ nodes = << EvaluatedRule(<<SelX, SelY>>,
                     <<EvaluatedDeclaration(Pq, <<"1", "p", "x">>, FALSE),
                       EvaluatedDeclaration(Pp, <<"1", "p", "x">>, FALSE)>>),
                  EvaluatedRule(<< <<"x", " ", "c">>, <<"y", " ", "c">> >>,
                     <<EvaluatedDeclaration(Pq, <<"2", "p", "x">>, FALSE),
                       EvaluatedDeclaration(Pp, <<"2", "p", "x">>, FALSE)>>) >>

AtImport == <<"@", "i", "m", "p", "o", "r", "t">>

\* the raw lines of the imports of a stylesheet, in source order
import_raws(sheet) ==
    LET found == SelectSeq(sheet, LAMBDA st : st.t = "import")
    IN  [i \in 1..Len(found) |-> found[i].raw]

\* each line followed by a line break
text_of_lines(lines) == Flatten([i \in 1..Len(lines) |-> lines[i] \o <<"\n">>])

imports_lead(lines, out) ==
    /\ starts_with(out, trim_end(text_of_lines(lines)))
    /\ Len(out) > Len(trim_end(text_of_lines(lines)))
         => starts_with(out, text_of_lines(lines))
    /\ occurrences(out, AtImport) = Len(lines)

\* C16: the raw line of every CSS import (`@import <target>;` without the
\* option list) is written to the output exactly once, each on its own line
\* and in source order, before every rule and at-rule, in pretty and in
\* minified mode.
C16_CssImportsFirst ==
    (status = "ok" /\ ast # <<>>) =>
        /\ \A i \in 1..Len(ast) :
              (ast[i].t = "import" /\ ast[i].is_css)
                  => ~starts_with(ast[i].raw, AtImport \o <<" ", "(">>)
        /\ imports_lead(import_raws(ast), css)

\* @import (CSS) "r.css"; x, y { p: 1px } @import url(s.css); minified
C16_Witness ==
    /\ status = "ok"
    /\ minify
    /\ ast = <<CssImport, RuleSet(<<SelX, SelY>>, <<Declaration(Pp, V1px)>>),
               CssImportUrl>>
    /\ css = <<"@", "i", "m", "p", "o", "r", "t", " ", "\"", "r", ".", "c", "s",
               "s", "\"", ";", "\n",
               "@", "i", "m", "p", "o", "r", "t", " ", "u", "r", "l", "(", "s",
               ".", "c", "s", "s", ")", ";", "\n",
               "x", ",", "y", "{", "p", ":", "1", "p", "x", "}">>

\* What a reader of CSS takes from a text: whitespace does not count and the
\* semicolon after the last declaration of a block is optional.
RECURSIVE without_final_semicolons(_)
without_final_semicolons(s) ==
    IF s = <<>> THEN <<>>
    ELSE IF Len(s) >= 2 /\ s[1] = ";" /\ s[2] = "}"
    THEN without_final_semicolons(Tail(s))
    ELSE <<Head(s)>> \o without_final_semicolons(Tail(s))

css_reading(text) == without_final_semicolons(without_whitespace(text))

\* C14: a source compiled with minify=false and with minify=true gives the
\* same rules in the same order with the same declarations (same name, same
\* value up to whitespace, same !important flag): the two outputs read the
\* same once whitespace and optional final semicolons are set aside.
C14_MinifyChangesRenderingOnly ==
    status = "ok" =>
        css_reading(css)
            = css_reading(to_css(~minify, EvaluatedStylesheet(imports, nodes)))

\* C22: every evaluation of a ruleset, a mixin expansion or an at-rule leaves
\* the variable scope stack and the mixin scope stack at the depth they had
\* on entry, on every exit, also when it returns an error raised inside its
\* body: once evaluate has returned, with Ok or with an error, every
\* activation has exited and both stacks hold the global scope alone.
C22_ScopesRestoredOnEveryExit ==
    status \in {"ok", "err"} =>
        Len(scopes) = 1 /\ Len(mixin_scopes) = 1

\* The steps of a detached ruleset's invocation and of a mixin expansion's
\* return, on the two scope stacks.
DetachedRunsInInvokersScope ==
    /\ (InBody /\ Item.t = "detached_call" /\ Len(frames) < StackLimit
           /\ resolve_ruleset_variable(scopes, Item.name).ok)
          => /\ scopes' = scopes
             /\ mixin_scopes' = mixin_scopes
             /\ Len(frames') = Len(frames) + 1
             /\ frames'[Len(frames')].k = "detached"
             /\ frames'[Len(frames')].items
                  = resolve_ruleset_variable(scopes, Item.name).val
    /\ (InBody /\ Top.k = "detached" /\ Item.t = "var" /\ status' = "running")
          => /\ Len(scopes') = Len(scopes)
             /\ Item.name \in DOMAIN scopes'[Len(scopes')]
             /\ mixin_scopes' = mixin_scopes
    /\ (InBody /\ Top.k = "detached" /\ Item.t = "mixin_def")
          => /\ Len(mixin_scopes') = Len(mixin_scopes)
             /\ mixin_scopes'[Len(mixin_scopes')][Item.def.name] = Item.def
             /\ scopes' = scopes
    /\ (AtReturn("detached") /\ frames' # frames)
          => (scopes' = scopes /\ mixin_scopes' = mixin_scopes)
    /\ (AtReturn("mixin") /\ frames' # frames)
          => /\ scopes' = SubSeq(scopes, 1, Len(scopes) - 1)
             /\ mixin_scopes' = SubSeq(mixin_scopes, 1, Len(mixin_scopes) - 1)

\* What the three stylesheets of DetachedSheets compile to.
DetachedSheetResults ==
    status \in {"ok", "err"} =>
      /\ ast = DetachedSheet(Declaration(Pq, Va)) =>
            /\ status = "ok"
            /\ nodes = <<EvaluatedRule(<<SelX, SelY>>,
                  <<EvaluatedDeclaration(Pq, <<"2", "p", "x">>, FALSE),
                    EvaluatedDeclaration(Pp, <<"2", "p", "x">>, FALSE),
                    EvaluatedDeclaration(Pq, <<"1", "p", "x">>, FALSE)>>)>>
      /\ ast = DetachedSheet(MixinCall(".n", <<>>)) =>
            (status = "err" /\ error = "undefined_mixin")
      /\ ast = DetachedSheet(DetachedCall(Nr)) =>
            (status = "err" /\ error = "undefined_variable")

\* C30: a detached ruleset invoked with `@name();` runs its body items in
\* the scope of the body that invokes it, no scope is pushed or popped for
\* it, so the variables and mixins its body defines are there for the items
\* that follow the call in the invoking body; a mixin expansion's scope,
\* with the parameters and whatever was defined during the expansion, is
\* gone when the call returns.
C30_DetachedRulesetSharesScope ==
    /\ [][DetachedRunsInInvokersScope]_vars
    /\ []DetachedSheetResults

\* @a: 1px; .m(@r) { @r(); q: @a; .n(); }
\* x, y { .m({ @a: 2px; .n() { p: 2px } }); q: @a; } compiled:
\* x, y { q: 2px; p: 2px; q: 1px }
C30_Witness ==
    /\ ast = DetachedSheet(Declaration(Pq, Va))
    /\ status = "ok"
    /\ nodes = <<EvaluatedRule(<<SelX, SelY>>,
          <<EvaluatedDeclaration(Pq, <<"2", "p", "x">>, FALSE),
            EvaluatedDeclaration(Pp, <<"2", "p", "x">>, FALSE),
            EvaluatedDeclaration(Pq, <<"1", "p", "x">>, FALSE)>>)>>

\* The ruleset, mixin-expansion and at-rule activations in progress; a
\* detached ruleset's invocation and the top-level call's wrapper push no
\* scope and are not among them.
activations_in_progress(fs) ==
    Cardinality({i \in 1..Len(fs) : fs[i].k \in {"ruleset", "mixin", "at_rule"}})

\* C27: while evaluate runs, between any two steps of it, the variable scope
\* stack and the mixin scope stack are equally deep, at least 1 deep, and
\* exactly 1 deeper than the number of ruleset, mixin-expansion and at-rule
\* activations in progress; when evaluate has returned Ok both stacks hold
\* one scope, the global one.
C27_ScopeDepths ==
    /\ status = "running" =>
          /\ Len(scopes) = Len(mixin_scopes)
          /\ Len(scopes) >= 1
          /\ Len(scopes) = 1 + activations_in_progress(frames)
    /\ status = "ok" => (Len(scopes) = 1 /\ Len(mixin_scopes) = 1)

\* A detached ruleset invoked inside a mixin expansion inside a ruleset: the
\* two enclosing activations pushed a scope each, the invocation none.
C27_Witness ==
    /\ status = "running"
    /\ frames # <<>>
    /\ Top.k = "detached"
    /\ activations_in_progress(frames) = 2
    /\ Len(scopes) = 3
    /\ Len(mixin_scopes) = 3

\* C1: compile terminates for every source that parses, returning CSS or an
\* error, also when a mixin's body calls the same mixin directly or through
\* another mixin: the evaluation never exhausts the call stack.
C1_CompileReturnsCssOrError == status \in {"running", "ok", "err"}

\* Every rule of a node list, at any depth, has declarations.
RECURSIVE all_rules_nonempty(_)
all_rules_nonempty(ns) ==
    \A i \in 1..Len(ns) :
        IF ns[i].k = "rule" THEN ns[i].declarations # <<>>
        ELSE all_rules_nonempty(ns[i].children)

\* C5: evaluation never produces a rule with an empty declaration list,
\* neither in the output nor in a list still being built; a ruleset whose
\* body yields no declarations contributes no rule of its own and its
\* nested rules that have declarations are still emitted.
C5_NoEmptyRule ==
    /\ all_rules_nonempty(nodes)
    /\ \A i \in 1..Len(frames) :
          /\ all_rules_nonempty(frames[i].pending_nodes)
          /\ all_rules_nonempty(frames[i].children)
    /\ \A i \in 1..Len(results) : all_rules_nonempty(results[i].nodes)

\* x, y { c { p: 1px } } compiled: the only node is the nested rule
C5_Witness ==
    /\ status = "ok"
    /\ nodes = <<EvaluatedRule(<< <<"x", " ", "c">>, <<"y", " ", "c">> >>,
                               <<EvaluatedDeclaration(Pp, <<"1", "p", "x">>, FALSE)>>)>>

IsPrefix(a, b) == Len(a) <= Len(b) /\ SubSeq(b, 1, Len(a)) = a

\* The list a returning activation hands its nodes to.
caller_list(fs, ns) ==
    IF fs = <<>> THEN ns
    ELSE IF fs[owner_index(fs, Len(fs))].k = "at_rule"
    THEN fs[owner_index(fs, Len(fs))].children
    ELSE fs[owner_index(fs, Len(fs))].pending_nodes

own_rule(f) ==
    IF f.declarations # <<>>
    THEN <<EvaluatedRule(f.selectors, f.declarations)>> ELSE <<>>

\* C7: a returning ruleset hands over the rule of its own declarations
\* first and the nodes of its nested rulesets, at-rules and expansions after
\* it; and those nodes, like the declarations, are only ever appended to, so
\* they stay in the order in which the body met them.
C7_OwnRuleBeforeNested ==
    [][ /\ (AtReturn("ruleset") /\ frames' # frames)
             => caller_list(frames', nodes')
                  = caller_list(pop_frame(frames), nodes)
                    \o own_rule(Top) \o Top.pending_nodes
        /\ \A i \in 1..Len(frames) :
              i <= Len(frames')
                => /\ IsPrefix(frames[i].pending_nodes, frames'[i].pending_nodes)
                   /\ IsPrefix(frames[i].children, frames'[i].children)
                   /\ IsPrefix(frames[i].declarations, frames'[i].declarations)
        /\ results' = results => IsPrefix(nodes, nodes')
      ]_vars

\* x, y { p: 1px; c { p: 1px } } in either order of the two body items
C7_Witness ==
    /\ status = "ok"
    /\ nodes = <<EvaluatedRule(<<SelX, SelY>>,
                               <<EvaluatedDeclaration(Pp, <<"1", "p", "x">>, FALSE)>>),
                 EvaluatedRule(<< <<"x", " ", "c">>, <<"y", " ", "c">> >>,
                               <<EvaluatedDeclaration(Pp, <<"1", "p", "x">>, FALSE)>>)>>

\* the declarations met directly in an at-rule body so far
direct_declarations(f) == f.at_rule_declarations \o f.scoped_declarations

\* C8: the at-rule handed over by a returning eval_at_rule carries the
\* declarations met directly in its body (mixin and detached-ruleset calls
\* included) itself when there is no selector context; in a selector
\* context its own declaration list is empty and the declarations form one
\* rule with the enclosing selectors that is its first child, before the
\* nodes of the nested rules and at-rules.
C8_AtRuleDeclarations ==
    [][ /\ (AtReturn("at_rule") /\ frames' # frames)
             => LET out == caller_list(frames', nodes')
                    n   == out[Len(out)]
                IN  /\ n.k = "at_rule"
                    /\ Top.selectors = <<>>
                          => /\ n.declarations = direct_declarations(Top)
                             /\ n.children = Top.children
                    /\ Top.selectors # <<>>
                          => /\ n.declarations = <<>>
                             /\ n.children
                                  = (IF direct_declarations(Top) # <<>>
                                     THEN <<EvaluatedRule(Top.selectors,
                                                          direct_declarations(Top))>>
                                     ELSE <<>>)
                                    \o Top.children
        /\ (InBody /\ Item.t = "decl" /\ status' = "running"
               /\ frames[owner_index(frames, Len(frames))].k = "at_rule")
             => direct_declarations(frames'[owner_index(frames, Len(frames))])
                  = Append(direct_declarations(
                               frames[owner_index(frames, Len(frames))]),
                           eval_declaration(scopes, Item).val)
      ]_vars

\* x, y { @media (w) { q: 2px; c { p: 1px } } } compiled
C8_Witness ==
    /\ status = "ok"
    /\ nodes = <<EvaluatedAtRule(Media, MediaParams, <<>>,
                   <<EvaluatedRule(<<SelX, SelY>>,
                        <<EvaluatedDeclaration(Pq, <<"2", "p", "x">>, FALSE)>>),
                     EvaluatedRule(<< <<"x", " ", "c">>, <<"y", " ", "c">> >>,
                        <<EvaluatedDeclaration(Pp, <<"1", "p", "x">>, FALSE)>>)>>)>>

\* the mixin call about to be expanded, <<>> when the next step is none
CallSite ==
    IF AtTopLevel /\ Head(stmts).t = "mixin_call" THEN <<Head(stmts)>>
    ELSE IF InBody /\ Item.t = "mixin_call" /\ Len(frames) < StackLimit
    THEN <<Item>>
    ELSE <<>>

\* C9 for the call and the definition it resolves to
BindsParameters(call, def) ==
    /\ Len(call.args) > Len(def.params) => status' = "err"
    /\ (\E i \in (Len(call.args) + 1)..Len(def.params) :
            def.params[i].default = <<>>) => status' = "err"
    /\ status' = "running" =>
          /\ Len(scopes') = Len(scopes) + 1
          /\ frames'[Len(frames')].k = "mixin"
          /\ frames'[Len(frames')].items = def.body
          /\ \A i \in 1..Len(def.params) :
                def.params[i].name \in DOMAIN scopes'[Len(scopes')]
          /\ \A i \in 1..Len(call.args) :
                /\ call.args[i].k = "ruleset"
                      => scopes'[Len(scopes')][def.params[i].name]
                           = DetachedRuleset(call.args[i].body)
                /\ (call.args[i].k = "value"
                      /\ (i = 1 \/ \A j \in 1..Len(call.args[i].value) :
                                       call.args[i].value[j].k = "lit"))
                      => scopes'[Len(scopes')][def.params[i].name]
                           = Text(eval_value(scopes, call.args[i].value).val)
          /\ \A i \in (Len(call.args) + 1)..Len(def.params) :
                scopes'[Len(scopes')][def.params[i].name]
                  = Text(eval_value(scopes', def.params[i].default[1]).val)

\* C9: a mixin call binds its arguments to the parameters by position and
\* fills the remaining parameters from their defaults; it is an error when
\* there are more arguments than parameters or when a parameter without an
\* argument has no default; on success every parameter is bound in the new
\* scope before the first body item is evaluated.
C9_MixinArguments ==
    [][ (CallSite # <<>> /\ resolve_mixin(mixin_scopes, CallSite[1].name).ok)
          => BindsParameters(CallSite[1],
                             resolve_mixin(mixin_scopes, CallSite[1].name).val)
      ]_vars

\* x, y { @a: 2px; .m(@a); } with .m(@a: 1px; @b: @a) { p: @b }: the body is
\* about to start with a bound to the argument and b to its default
C9_Witness ==
    /\ status = "running"
    /\ Len(frames) = 2
    /\ Top.k = "mixin"
    /\ Top.items = <<Declaration(Pp, Vb)>>
    /\ scopes[Len(scopes)] = MapInsert(MapInsert(EmptyMap, Na, Text(<<"2", "p", "x">>)),
                                       Nb, Text(<<"2", "p", "x">>))

\* C26 for the call and the definition it resolves to
BindsCallerValues(call, def) ==
    \A i \in 1..Len(call.args) :
        (call.args[i].k = "value" /\ i <= Len(def.params)
            /\ eval_value(scopes, call.args[i].value).ok)
          => scopes'[Len(scopes')][def.params[i].name]
               = Text(eval_value(scopes, call.args[i].value).val)

\* C26: the value bound to a mixin parameter from a call argument is the
\* argument evaluated in the caller's scope; it does not depend on the
\* parameters of the same call bound before it: .m(@b, @a) on .m(@a, @b)
\* with outer @a: 1px and @b: 2px binds a to 2px and b to 1px.
C26_ArgumentsInCallerScope ==
    [][ (CallSite # <<>> /\ resolve_mixin(mixin_scopes, CallSite[1].name).ok
           /\ status' = "running")
          => BindsCallerValues(CallSite[1],
                               resolve_mixin(mixin_scopes, CallSite[1].name).val)
      ]_vars

\* C10: the compiled output does not depend on the order of the sibling
\* variable declarations of a scope; the stylesheet and its reordering
\* (a variable declaration moved across a mixin call, or two variable
\* declarations swapped) compile to the same nodes when both compile.
C10_OrderIndependent ==
    (Len(results) = 1 /\ queue = <<>> /\ status = "ok" /\ results[1].status = "ok")
        => results[1].nodes = nodes

\* ------------------------------------------------------------------------
\* One declaration value through eval_declaration
\* ------------------------------------------------------------------------

Quantities == {sg \o n \o u : sg \in Signs, n \in Nums, u \in Units}

Words == {<<"a", "-", "b">>}

Terms == Quantities \cup Words

Separators ==
    { <<" ">>, <<" ", "+", " ">>, <<" ", "-", " ">>, <<" ", "*", " ">>,
      <<" ", "/", " ">>, <<"+">>, <<"-">>, <<"*">>, <<"/">> }

\* separators of plain CSS value lists: a space, or the slash of shorthands
CssSeparators == { <<" ">>, <<" ", "/", " ">>, <<"/">> }

SmallTerms == { <<"2">>, <<"1", "p", "x">>, <<"-", "1", "p", "x">>, <<"3", "e", "m">> }

SmallSeparators == { <<" ">>, <<" ", "*", " ">>, <<" ", "+", " ">>, <<" ", "/", " ">> }

Pairs == {a \o sep \o b : a \in Terms, sep \in Separators, b \in Terms}

Triples ==
    {a \o s1 \o b \o s2 \o c : a \in SmallTerms, s1 \in SmallSeparators,
       b \in SmallTerms, s2 \in SmallSeparators, c \in SmallTerms}

Grouped ==
    {pre \o <<"(">> \o a \o sep \o b \o <<")">> :
       pre \in {<<>>, <<"-">>}, a \in SmallTerms, sep \in SmallSeparators,
       b \in SmallTerms}

Flagged == {a \o sp \o ImportantMarker : a \in SmallTerms, sp \in {<<>>, <<" ">>}}

\* Three or four small terms with one group in parentheses:
\* `(a s1 b) s2 c`, `a s1 (b s2 c)` and `(a s1 b) (c s2 d)`.
group_first(a, s1, b, s2, c) == <<"(">> \o a \o s1 \o b \o <<")">> \o s2 \o c

group_last(a, s1, b, s2, c) == a \o s1 \o <<"(">> \o b \o s2 \o c \o <<")">>

two_groups(a, s1, b, c, s2, d) ==
    <<"(">> \o a \o s1 \o b \o <<")", " ", "(">> \o c \o s2 \o d \o <<")">>

Segmented ==
    {group_first(a, s1, b, s2, c) : a \in SmallTerms, s1 \in SmallSeparators,
       b \in SmallTerms, s2 \in SmallSeparators, c \in SmallTerms}
    \cup
    {group_last(a, s1, b, s2, c) : a \in SmallTerms, s1 \in SmallSeparators,
       b \in SmallTerms, s2 \in SmallSeparators, c \in SmallTerms}
    \cup
    {two_groups(a, s1, b, c, s2, d) : a \in SmallTerms, s1 \in SmallSeparators,
       b \in SmallTerms, c \in SmallTerms, s2 \in SmallSeparators,
       d \in SmallTerms}

\* A value that starts with a sign: `+a sep b`, `+(a sep b)`, `a sep +b`.
Unsigned == {a \in SmallTerms : Head(a) # "-"}

PlusSigned ==
    {<<"+">> \o a \o sep \o b : a \in Unsigned, sep \in SmallSeparators,
       b \in Unsigned}
    \cup
    {<<"+", "(">> \o a \o sep \o b \o <<")">> :
       a \in Unsigned, sep \in SmallSeparators, b \in Unsigned}
    \cup
    {a \o sep \o <<"+">> \o b :
       a \in Unsigned, sep \in SmallSeparators \ {<<" ">>}, b \in Unsigned}

\* A value that carries the marker twice, as `@v !important` does when @v
\* is `1px !important`.
TwiceFlagged ==
    {a \o sp1 \o ImportantMarker \o sp2 \o ImportantMarker :
       a \in SmallTerms, sp1 \in {<<>>, <<" ">>}, sp2 \in {<<>>, <<" ">>}}

ValueInputs ==
    Terms \cup Pairs \cup Triples \cup Grouped \cup Flagged \cup Segmented
    \cup PlusSigned \cup TwiceFlagged

\* The inputs that are plain CSS: one quantity or word, or two of them
\* separated the CSS way.
PlainCssInputs ==
    Terms \cup {a \o sep \o b : a \in Terms, sep \in CssSeparators, b \in Terms}

InitValue ==
    /\ ParseIdle
    /\ EvalIdle
    /\ SelIdle
    /\ ImpIdle
    /\ vinput \in ValueInputs
    /\ vresult = Ok(<<>>)
    /\ vpc = "parsed"

\* The declaration `p: <vinput>` as the parser hands it over (one literal
\* piece, important = false) goes through eval_declaration in the global
\* scope.
EvalDeclaration ==
    /\ vpc = "parsed"
    /\ vresult' = eval_declaration(<<EmptyMap>>, Declaration(Pp, <<Literal(vinput)>>))
    /\ vpc' = "evaluated"
    /\ UNCHANGED <<vinput, evalVars, selVars, impVars, parseVars>>

NextValue == EvalDeclaration

SpecValue == InitValue /\ [][NextValue]_vars

\* C2: a declaration of plain CSS keeps its name and its value up to
\* whitespace, also when the value is made of several quantities such as
\* `10px -5px` or `1 / 2`.
C2_PlainCssUnchanged ==
    (vpc = "evaluated" /\ vinput \in PlainCssInputs)
        => /\ vresult.ok
           /\ vresult.val.name = Pp
           /\ without_whitespace(vresult.val.value) = without_whitespace(vinput)

marked_once(text) ==
    /\ occurrences(text, ImportantMarker) = 1
    /\ ends_with(without_whitespace(text), ImportantMarker)
       \/ ends_with(without_whitespace(text), ImportantMarker \o <<";">>)

\* C15: a declaration whose evaluated value ends with !important is emitted
\* with the important flag set and the marker exactly once, after the value,
\* in the pretty and in the minified form; a declaration whose evaluated
\* value does not end with !important is not flagged.
C15_ImportantOnce ==
    (vpc = "evaluated" /\ vresult.ok) =>
        IF ends_with(trim_end(eval_value(<<EmptyMap>>, <<Literal(vinput)>>).val),
                     ImportantMarker)
        THEN /\ vresult.val.important
             /\ marked_once(format_declaration(vresult.val))
             /\ marked_once(format_declaration_minified(vresult.val))
        ELSE ~vresult.val.important

Plus == <<" ", "+", " ">>
Minus == <<" ", "-", " ">>
Times == <<" ", "*", " ">>
Over == <<" ", "/", " ">>

binary_expression(n1, u1, op, n2, u2) == n1 \o u1 \o op \o n2 \o u2

\* The expressions C3 names: a sum or difference of two different units, a
\* product of two unit-bearing quantities, a unit-bearing divisor, a zero
\* divisor.
ErroneousExpressions ==
    { binary_expression(n1, uu[1], op, n2, uu[2]) :
        n1 \in Nums, n2 \in Nums, op \in {Plus, Minus},
        uu \in {vv \in (Units \ {<<>>}) \X (Units \ {<<>>}) : vv[1] # vv[2]} }
    \cup
    { binary_expression(n1, u1, Times, n2, u2) :
        n1 \in Nums, n2 \in Nums, u1 \in Units \ {<<>>}, u2 \in Units \ {<<>>} }
    \cup
    { binary_expression(n1, u1, Over, n2, u2) :
        n1 \in Nums, n2 \in Nums, u1 \in Units, u2 \in Units \ {<<>>} }
    \cup
    { binary_expression(n1, u1, Over, <<"0">>, <<>>) : n1 \in Nums, u1 \in Units }

\* C3: a declaration whose value adds or subtracts quantities of different
\* units, multiplies two unit-bearing quantities, divides by a unit-bearing
\* quantity or divides by zero is an evaluation error: no declaration is
\* produced for it.
C3_ArithmeticErrorsReported ==
    (vpc = "evaluated" /\ vinput \in ErroneousExpressions) => ~vresult.ok

\* The quantity a small term denotes.
TermQuantity(t) ==
    CASE t = <<"2">> -> Quantity(Rat(2, 1), <<>>)
      [] t = <<"1", "p", "x">> -> Quantity(Rat(1, 1), Px)
      [] t = <<"-", "1", "p", "x">> -> Quantity(Rat(-1, 1), Px)
      [] t = <<"3", "e", "m">> -> Quantity(Rat(3, 1), Em)

\* Segments folded strictly left to right: seps[i] stands before qs[i]; a
\* space closes the segment, an operator applies to the running result.
RECURSIVE left_to_right(_, _, _, _)
left_to_right(qs, seps, acc, done) ==
    IF qs = <<>> THEN Ok(Append(done, acc))
    ELSE IF Head(seps) = <<" ">>
    THEN left_to_right(Tail(qs), Tail(seps), Head(qs), Append(done, acc))
    ELSE LET r == apply_operator(acc, Head(seps)[2], Head(qs))
         IN  IF r.ok THEN left_to_right(Tail(qs), Tail(seps), r.val, done)
             ELSE r

SegmentCase(text, terms, seps) == [text |-> text, terms |-> terms, seps |-> seps]

\* The values C12 speaks of, with the terms and separators they are made
\* of: at least one separator is an operator, and a term written after a
\* space carries no sign.
SegmentCases ==
    { cs \in
        { SegmentCase(a \o s1 \o b \o s2 \o c, <<a, b, c>>, <<s1, s2>>) :
            a \in SmallTerms, s1 \in SmallSeparators, b \in SmallTerms,
            s2 \in SmallSeparators, c \in SmallTerms }
        \cup
        { SegmentCase(group_first(a, s1, b, s2, c), <<a, b, c>>, <<s1, s2>>) :
            a \in SmallTerms, s1 \in SmallSeparators, b \in SmallTerms,
            s2 \in SmallSeparators, c \in SmallTerms }
        \cup
        { SegmentCase(group_last(a, s1, b, s2, c), <<a, b, c>>, <<s1, s2>>) :
            a \in SmallTerms, s1 \in SmallSeparators, b \in SmallTerms,
            s2 \in SmallSeparators, c \in SmallTerms }
        \cup
        { SegmentCase(two_groups(a, s1, b, c, s2, d), <<a, b, c, d>>,
                      <<s1, <<" ">>, s2>>) :
            a \in SmallTerms, s1 \in SmallSeparators, b \in SmallTerms,
            c \in SmallTerms, s2 \in SmallSeparators, d \in SmallTerms } :
        /\ \E i \in 1..Len(cs.seps) : cs.seps[i] # <<" ">>
        /\ \A i \in 1..Len(cs.seps) :
              cs.seps[i] = <<" ">> => Head(cs.terms[i + 1]) # "-" }

SegmentTexts == {cs.text : cs \in SegmentCases}

segments_expected(cs) ==
    left_to_right([i \in 1..(Len(cs.terms) - 1) |-> TermQuantity(cs.terms[i + 1])],
                  cs.seps, TermQuantity(cs.terms[1]), <<>>)

segments_text(segs) ==
    join_space([i \in 1..Len(segs) |-> format_quantity(segs[i])])

\* C12: a value made of quantities, spaced operators and parentheses is
\* evaluated as a sequence of segments: operators fold strictly left to
\* right with no precedence, parentheses do not change that order, a
\* quantity that follows a quantity starts a new segment, and the value of
\* the declaration is the segment results joined by single spaces.
C12_SegmentsLeftToRight ==
    (vpc = "evaluated" /\ vinput \in SegmentTexts) =>
        \A cs \in SegmentCases :
            (cs.text = vinput /\ segments_expected(cs).ok)
                => /\ vresult.ok
                   /\ vresult.val.value
                        = segments_text(segments_expected(cs).val)

\* 2 * (3em + 3em) evaluated: without precedence it is 2 * 3em + 3em = 9em
C12_Witness ==
    /\ vpc = "evaluated"
    /\ vinput = group_last(<<"2">>, Times, <<"3", "e", "m">>, Plus, <<"3", "e", "m">>)
    /\ vresult.ok
    /\ vresult.val.value = <<"9", "e", "m">>

Negated(q) == Quantity(Rat(-q.value.n, q.value.d), q.unit)

SignCase(text, first, second, sep) ==
    [text |-> text, first |-> first, second |-> second, sep |-> sep]

\* Values with a sign at the start of the expression or directly after an
\* operator, with the two quantities the sign rule makes of them.
SignCases ==
    { SignCase(<<"-", "(">> \o a \o sep \o b \o <<")">>,
               Negated(TermQuantity(a)), TermQuantity(b), sep) :
        a \in Unsigned, sep \in SmallSeparators \ {<<" ">>}, b \in Unsigned }
    \cup
    { SignCase(a \o sep \o <<"-">> \o b,
               TermQuantity(a), Negated(TermQuantity(b)), sep) :
        a \in Unsigned, sep \in SmallSeparators \ {<<" ">>}, b \in Unsigned }
    \cup
    { SignCase(<<"+">> \o a \o sep \o b, TermQuantity(a), TermQuantity(b), sep) :
        a \in Unsigned, sep \in SmallSeparators \ {<<" ">>}, b \in Unsigned }
    \cup
    { SignCase(<<"+", "(">> \o a \o sep \o b \o <<")">>,
               TermQuantity(a), TermQuantity(b), sep) :
        a \in Unsigned, sep \in SmallSeparators \ {<<" ">>}, b \in Unsigned }
    \cup
    { SignCase(a \o sep \o <<"+">> \o b, TermQuantity(a), TermQuantity(b), sep) :
        a \in Unsigned, sep \in SmallSeparators \ {<<" ">>}, b \in Unsigned }

SignTexts == {cs.text : cs \in SignCases}

sign_expected(cs) == left_to_right(<<cs.second>>, <<cs.sep>>, cs.first, <<>>)

\* C13: a `-` or a `+` at the start of an expression or directly after an
\* operator is the sign of the number that follows: `-(a op b)` is computed
\* as (-a) op b, `a op -b` as a op (-b), and `+a op b`, `+(a op b)` and
\* `a op +b` as a op b.
C13_SignAttaches ==
    (vpc = "evaluated" /\ vinput \in SignTexts) =>
        \A cs \in SignCases :
            (cs.text = vinput /\ sign_expected(cs).ok)
                => /\ vresult.ok
                   /\ vresult.val.value = segments_text(sign_expected(cs).val)

\* ------------------------------------------------------------------------
\* Nested rulesets through combine_selectors
\* ------------------------------------------------------------------------

MaxSelectors == 4

MaxDepth == 3

\* Selectors as parse_ruleset leaves them: trimmed and non-empty.
SelectorAtoms ==
    { <<"a">>, <<"b">>, <<"c">>, <<"&", ":", "h">>, <<"&", " ", "+", " ", "&">> }

\* selector lists without repetition
SelectorLists ==
    { l \in SeqsUpTo(SelectorAtoms, MaxSelectors) :
        /\ l # <<>>
        /\ \A i, j \in 1..Len(l) : l[i] = l[j] => i = j }

InitSel ==
    /\ ParseIdle
    /\ EvalIdle
    /\ ValueIdle
    /\ ImpIdle
    /\ SelIdle

\* eval_ruleset entered for a ruleset nested in the current selector context
\* (the empty context at the top level).
NestRuleset ==
    /\ sdepth < MaxDepth
    /\ \E current \in SelectorLists :
         /\ Len(current) * (IF sselectors = <<>> THEN 1 ELSE Len(sselectors))
              <= MaxSelectors
         /\ sparents' = sselectors
         /\ schildren' = current
         /\ sselectors' = combine_selectors(sselectors, current)
    /\ sdepth' = sdepth + 1
    /\ UNCHANGED <<evalVars, valueVars, impVars, parseVars>>

NextSel == NestRuleset

SpecSel == InitSel /\ [][NextSel]_vars

\* The entry for one parent and one child, written without combine_one.
expected_selector(parent, child) ==
    IF \E k \in 1..Len(child) : child[k] = "&"
    THEN Flatten([k \in 1..Len(child) |->
                    IF child[k] = "&" THEN parent ELSE <<child[k]>>])
    ELSE parent \o <<" ">> \o child

\* C6: a ruleset nested under a non-empty parent list P with own selectors C
\* gets exactly |P|*|C| selectors, parents outer and children inner; each is
\* the child with every `&` replaced by the parent when the child has an
\* `&`, and otherwise parent, one space, child.
C6_CombinedSelectors ==
    sparents # <<>> =>
        /\ Len(sselectors) = Len(sparents) * Len(schildren)
        /\ \A i \in 1..Len(sparents), j \in 1..Len(schildren) :
             sselectors[(i - 1) * Len(schildren) + j]
                = expected_selector(sparents[i], schildren[j])

\* Two parents and two children, one of them with `&`: a, b { c, &:h {} }
C6_Witness ==
    /\ sparents = <<SelA, SelB>>
    /\ schildren = <<SelC, SelHover>>
    /\ sselectors = << <<"a", " ", "c">>, <<"a", ":", "h">>,
                       <<"b", " ", "c">>, <<"b", ":", "h">> >>

\* ------------------------------------------------------------------------
\* compile_file, compile and import expansion (src/src/lib.rs, importer.rs)
\* ------------------------------------------------------------------------

\* A file path is a directory, a stem and an extension ("" for none); an
\* import target is a relative path of one component.  Every path the
\* model forms is canonical, so canonicalize returns it as it is.
Path(dir, stem, ext) == [dir |-> dir, stem |-> stem, ext |-> ext]

join(dir, target) == Path(dir, target.stem, target.ext)

parent(path) == path.dir

with_extension_less(candidate) == [candidate EXCEPT !.ext = "less"]

\* find_existing: Option<PathBuf>
find_existing(fs, candidate) ==
    IF candidate \in DOMAIN fs THEN <<candidate>>
    ELSE IF candidate.ext = "" /\ with_extension_less(candidate) \in DOMAIN fs
    THEN <<with_extension_less(candidate)>>
    ELSE <<>>

\* resolve_path trying the include paths before the including file's
\* directory
mutant_candidates_include_paths_first(incl, target, current_dir) ==
    [i \in 1..Len(incl) |-> join(incl[i], target)]
    \o (IF current_dir # <<>> THEN <<join(current_dir[1], target)>> ELSE <<>>)

\* the candidates of a relative target, in the order resolve_path tries them
candidates(incl, target, current_dir) ==
    (IF current_dir # <<>> THEN <<join(current_dir[1], target)>> ELSE <<>>)
    \o [i \in 1..Len(incl) |-> join(incl[i], target)]

RECURSIVE first_existing(_, _)
first_existing(fs, cands) ==
    IF cands = <<>> THEN Err("unresolved_import")
    ELSE IF find_existing(fs, Head(cands)) # <<>>
    THEN Ok(find_existing(fs, Head(cands))[1])
    ELSE first_existing(fs, Tail(cands))

resolve_path(fs, incl, target, current_dir) ==
    first_existing(fs, candidates(incl, target, current_dir))

InSeq(x, sq) == \E i \in 1..Len(sq) : sq[i] = x

\* One activation of ImportResolver::expand: the statements its loop has
\* not consumed yet, its current_dir and its result vector.
Call(items, dir) == [items |-> items, current_dir |-> dir, result |-> <<>>]

TopCall == calls[Len(calls)]

Expanding == istatus = "running" /\ calls # <<>> /\ TopCall.items # <<>>

IsLessImport(statement) == statement.t = "import" /\ ~statement.is_css

\* fs::read_to_string(path), and the function that called it
FileRead(path, by) == [path |-> path, by |-> by]

\* An Err leaves expand through `?` or `return Err`: nothing is popped.
ImportFail(e) ==
    /\ istatus' = "err"
    /\ ierror' = e
    /\ calls' = <<>>
    /\ UNCHANGED <<request, files, include_paths, stack, cache, reads, expanded>>

\* compile_file: read the root file, default the two directories, compile.
compile_file ==
    /\ istatus = "start"
    /\ request.kind = "file"
    /\ IF request.path[1] \notin DOMAIN files
       THEN /\ istatus' = "err"
            /\ ierror' = "read_failed"
            /\ UNCHANGED <<request, reads>>
       ELSE /\ reads' = Append(reads, FileRead(request.path[1], "compile_file"))
            /\ request' =
                 [request EXCEPT
                    !.kind = "source",
                    !.source = files[request.path[1]],
                    !.current_dir =
                        IF @ = <<>> THEN <<parent(request.path[1])>> ELSE @,
                    !.include_paths =
                        IF @ = <<>> THEN <<parent(request.path[1])>> ELSE @]
            /\ UNCHANGED <<istatus, ierror>>
    /\ UNCHANGED <<files, include_paths, calls, stack, cache, expanded>>
    /\ UNCHANGED <<evalVars, valueVars, selVars, parseVars>>

\* compile expanding the imports whatever the options are
mutant_wants_expansion_always(options) == TRUE

\* options.current_dir.is_some() || !options.include_paths.is_empty()
wants_expansion(options) ==
    options.current_dir # <<>> \/ options.include_paths # <<>>

\* compile up to the call of expand_imports, and expand_imports up to the
\* first expand activation (a new resolver: empty cache, empty stack).
expand_imports ==
    /\ istatus = "start"
    /\ request.kind = "source"
    /\ IF ~wants_expansion(request)
       THEN /\ istatus' = "ok"
            /\ expanded' = request.source
            /\ UNCHANGED <<include_paths, calls, stack, cache>>
       ELSE /\ istatus' = "running"
            /\ include_paths' = request.include_paths
            /\ cache' = EmptyMap
            /\ stack' = <<>>
            /\ calls' = <<Call(request.source, request.current_dir)>>
            /\ UNCHANGED expanded
    /\ UNCHANGED <<request, files, reads, ierror>>
    /\ UNCHANGED <<evalVars, valueVars, selVars, parseVars>>

\* other => result.push(other)
ExpandOther ==
    /\ Expanding
    /\ ~IsLessImport(Head(TopCall.items))
    /\ calls' = [calls EXCEPT ![Len(calls)].items = Tail(@),
                              ![Len(calls)].result = Append(@, Head(TopCall.items))]
    /\ UNCHANGED <<request, files, include_paths, stack, cache, reads, istatus,
                   ierror, expanded>>
    /\ UNCHANGED <<evalVars, valueVars, selVars, parseVars>>

\* the stylesheet load_stylesheet returns: the cached one, or the file's
load_stylesheet(path) ==
    IF path \in DOMAIN cache THEN cache[path] ELSE files[path]

\* load_stylesheet reading and parsing the file whether it is cached or not
mutant_ExpandLoad_never_cached(resolved) ==
    /\ stack' = Append(stack, resolved)
    /\ reads' = Append(reads, FileRead(resolved, "load_stylesheet"))
    /\ cache' = MapInsert(cache, resolved, files[resolved])
    /\ calls' = Append([calls EXCEPT ![Len(calls)].items = Tail(@)],
                       Call(files[resolved], <<parent(resolved)>>))
    /\ UNCHANGED <<request, files, include_paths, istatus, ierror, expanded>>

\* load_stylesheet, then the recursive call of expand
ExpandLoad(resolved) ==
    /\ stack' = Append(stack, resolved)
    /\ IF resolved \in DOMAIN cache
       THEN UNCHANGED <<cache, reads>>
       ELSE /\ reads' = Append(reads, FileRead(resolved, "load_stylesheet"))
            /\ cache' = MapInsert(cache, resolved, files[resolved])
    /\ calls' = Append([calls EXCEPT ![Len(calls)].items = Tail(@)],
                       Call(load_stylesheet(resolved), <<parent(resolved)>>))
    /\ UNCHANGED <<request, files, include_paths, istatus, ierror, expanded>>

\* expand loading whatever resolve_path found, on the stack or not
mutant_ExpandResolved_without_cycle_check(resolved) ==
    IF ~resolved.ok THEN ImportFail(resolved.err)
    ELSE ExpandLoad(resolved.val)

ExpandResolved(resolved) ==
    IF ~resolved.ok THEN ImportFail(resolved.err)
    ELSE IF InSeq(resolved.val, stack) THEN ImportFail("cyclic_import")
    ELSE ExpandLoad(resolved.val)

\* Statement::Import(import) if !import.is_css
ExpandImport ==
    /\ Expanding
    /\ IsLessImport(Head(TopCall.items))
    /\ IF Head(TopCall.items).path = <<>>
       THEN \* no arm pushes the statement: it is dropped
            /\ calls' = [calls EXCEPT ![Len(calls)].items = Tail(@)]
            /\ UNCHANGED <<request, files, include_paths, stack, cache, reads,
                           istatus, ierror, expanded>>
       ELSE ExpandResolved(resolve_path(files, include_paths,
                                        Head(TopCall.items).path[1],
                                        TopCall.current_dir))
    /\ UNCHANGED <<evalVars, valueVars, selVars, parseVars>>

\* the caller taking the result of the recursive call without popping
mutant_ExpandReturn_without_pop ==
    /\ istatus = "running"
    /\ Len(calls) > 1
    /\ TopCall.items = <<>>
    /\ calls' = [SubSeq(calls, 1, Len(calls) - 1)
                   EXCEPT ![Len(calls) - 1].result = @ \o TopCall.result]
    /\ UNCHANGED <<request, files, include_paths, stack, cache, reads, istatus,
                   ierror, expanded>>
    /\ UNCHANGED <<evalVars, valueVars, selVars, parseVars>>

\* Ok(result) of a recursive call: result.extend(expanded); self.stack.pop()
ExpandReturn ==
    /\ istatus = "running"
    /\ Len(calls) > 1
    /\ TopCall.items = <<>>
    /\ calls' = [SubSeq(calls, 1, Len(calls) - 1)
                   EXCEPT ![Len(calls) - 1].result = @ \o TopCall.result]
    /\ stack' = SubSeq(stack, 1, Len(stack) - 1)
    /\ UNCHANGED <<request, files, include_paths, cache, reads, istatus, ierror,
                   expanded>>
    /\ UNCHANGED <<evalVars, valueVars, selVars, parseVars>>

\* Ok(result) of the call made by expand_imports
ExpandImportsReturn ==
    /\ istatus = "running"
    /\ Len(calls) = 1
    /\ TopCall.items = <<>>
    /\ istatus' = "ok"
    /\ expanded' = TopCall.result
    /\ calls' = <<>>
    /\ UNCHANGED <<request, files, include_paths, stack, cache, reads, ierror>>
    /\ UNCHANGED <<evalVars, valueVars, selVars, parseVars>>

\* compile after the expansion: Evaluator::new(options) and the call of
\* evaluate(ast) with the statements the expansion (or, without one, the
\* parser) has left; EvaluateImport, EvaluateVariable and EvaluateReturn
\* carry the compile to its CSS text.
CompileEvaluate ==
    /\ istatus = "ok"
    /\ istatus' = "evaluating"
    /\ ast' = expanded
    /\ stmts' = expanded
    /\ scopes' = <<EmptyMap>>
    /\ mixin_scopes' = <<EmptyMap>>
    /\ frames' = <<>>
    /\ imports' = <<>>
    /\ nodes' = <<>>
    /\ status' = "running"
    /\ error' = "none"
    /\ UNCHANGED <<minify, css, queue, results>>
    /\ UNCHANGED <<request, files, include_paths, calls, stack, cache, reads,
                   ierror, expanded>>
    /\ UNCHANGED <<valueVars, selVars, parseVars>>

\* The caller compiles the same source with the same options once more,
\* after the first compile has returned.  The first compile's resolver and
\* evaluator are gone; what their memory held is of no account to the new
\* call, which builds its own.
CompileAgain ==
    /\ results = <<>>
    /\ \/ istatus = "err"
       \/ istatus = "evaluating" /\ status \in {"ok", "err"}
    /\ results' = Append(results, Outcome)
    /\ istatus' = "start"
    /\ ierror' = "none"
    /\ expanded' = <<>>
    /\ reads' = <<>>
    /\ calls' = <<>>
    /\ ast' = <<>> /\ minify' = FALSE /\ css' = <<>> /\ stmts' = <<>>
    /\ scopes' = <<EmptyMap>> /\ mixin_scopes' = <<EmptyMap>>
    /\ frames' = <<>> /\ imports' = <<>> /\ nodes' = <<>>
    /\ status' = "ok" /\ error' = "none"
    /\ UNCHANGED <<queue, request, files, include_paths, stack, cache>>
    /\ UNCHANGED <<valueVars, selVars, parseVars>>

\* The file systems and calls explored.
MaxImports == 2

DirD == "d"
DirE == "e"

FileA == Path(DirD, "a", "less")
FileB == Path(DirD, "b", "less")
FileEB == Path(DirE, "b", "less")

\* @import "<name>"; as parse_import leaves it, the path kept as its stem
\* and extension
LessImport(name, target) ==
    [parse_import(<<" ", "\"">> \o name \o <<"\"">>).val EXCEPT !.path = <<target>>]

ImportA == LessImport(<<"a">>, Target("a", ""))
ImportB == LessImport(<<"b", ".", "l", "e", "s", "s">>, Target("b", "less"))
ImportBare == LessImport(<<"b">>, Target("b", ""))
ImportZ == LessImport(<<"z">>, Target("z", ""))

ImportAlphabet == {ImportA, ImportB, ImportBare, ImportZ, CssImport}

ContentsA == SeqsUpTo(ImportAlphabet, MaxImports)

\* @import (less) url(s); has no path the parser can take
PathlessImport ==
    parse_import(<<" ", "(", "l", "e", "s", "s", ")", " ", "u", "r", "l", "(", "s",
        ")">>).val

ContentsB ==
    { <<>>, <<ImportA>>, <<CssImport, ImportB>>,
      <<PathlessImport, VariableDeclaration(Na, V1px)>> }

FileSystems ==
    { [f \in {FileA, FileB} |-> IF f = FileA THEN a ELSE b] :
        a \in ContentsA, b \in ContentsB }
    \cup
    { [f \in {FileA, FileB, FileEB} |->
         IF f = FileA THEN a ELSE IF f = FileB THEN b ELSE <<ImportA>>] :
        a \in ContentsA, b \in ContentsB }

\* Files without an extension next to, or instead of, the .less files, and
\* a file that only an include path has.
FileBareB == Path(DirD, "b", "")
FileBareEB == Path(DirE, "b", "")

BareFileSystems ==
    { [f \in names |-> IF f = FileA THEN a ELSE <<>>] :
        names \in { {FileA, FileB, FileBareB}, {FileA, FileB, FileBareEB},
                    {FileA, FileBareEB, FileEB}, {FileA, FileEB} },
        a \in { <<ImportBare>>, <<ImportB>> } }

OrderedRequests ==
    { [kind |-> "source", path |-> <<>>, source |-> <<ImportBare>>,
       current_dir |-> cd, include_paths |-> ip] :
        cd \in {<<>>, <<DirD>>}, ip \in {<<DirE, DirD>>, <<DirD, DirE>>} }

Requests ==
    { [kind |-> "file", path |-> <<FileA>>, source |-> <<>>, current_dir |-> cd,
       include_paths |-> ip] :
        cd \in {<<>>, <<DirE>>}, ip \in {<<>>, <<DirE>>} }
    \cup
    { [kind |-> "source", path |-> <<>>, source |-> src, current_dir |-> cd,
       include_paths |-> ip] :
        src \in {<<ImportA>>, <<CssImport, ImportBare, CssImport>>},
        cd \in {<<>>, <<DirD>>}, ip \in {<<>>, <<DirE>>} }

InitImport ==
    /\ ParseIdle
    /\ EvalIdle
    /\ ValueIdle
    /\ SelIdle
    /\ request \in Requests \cup OrderedRequests
    /\ files \in FileSystems \cup BareFileSystems
    /\ include_paths = <<>>
    /\ calls = <<>>
    /\ stack = <<>>
    /\ cache = EmptyMap
    /\ reads = <<>>
    /\ istatus = "start"
    /\ ierror = "none"
    /\ expanded = <<>>

NextImport ==
    \/ compile_file
    \/ expand_imports
    \/ ExpandOther
    \/ ExpandImport
    \/ ExpandReturn
    \/ ExpandImportsReturn
    \/ CompileEvaluate
    \/ EvaluateImport
    \/ EvaluateVariable
    \/ EvaluateReturn

SpecImport == InitImport /\ [][NextImport]_vars

\* The same with a second compile of the same request.
NextRecompile ==
    \/ compile_file
    \/ expand_imports
    \/ ExpandOther
    \/ ExpandImport
    \/ ExpandReturn
    \/ ExpandImportsReturn
    \/ CompileEvaluate
    \/ EvaluateImport
    \/ EvaluateVariable
    \/ EvaluateReturn
    \/ CompileAgain

SpecRecompile == InitImport /\ [][NextRecompile]_vars

\* C4: an import whose resolved file is already being expanded higher up
\* the chain makes the expansion return a cyclic-import error instead of a
\* stylesheet, also when that file is the root file given to compile_file:
\* no file is on the ancestor stack twice, the error raised for a file on
\* the stack is the cyclic-import error, and an expansion that loaded the
\* root file as an import (the root is being expanded all the while) does
\* not return a stylesheet.
C4_CyclicImportIsAnError ==
    /\ \A i, j \in 1..Len(stack) : stack[i] = stack[j] => i = j
    /\ (istatus = "ok" /\ request.path # <<>>)
          => request.path[1] \notin DOMAIN cache

\* The paths tried for a relative target, written out one by one: for the
\* including file's directory and then for each include path, the exact
\* path and, when the target has no extension, the path with `.less`.
attempts_in(dir, target) ==
    <<Path(dir, target.stem, target.ext)>>
    \o (IF target.ext = "" THEN <<Path(dir, target.stem, "less")>> ELSE <<>>)

attempts(dirs, target) ==
    Flatten([i \in 1..Len(dirs) |-> attempts_in(dirs[i], target)])

first_hit(fs, tried) ==
    IF \E i \in 1..Len(tried) : tried[i] \in DOMAIN fs
    THEN <<tried[CHOOSE i \in 1..Len(tried) :
                    /\ tried[i] \in DOMAIN fs
                    /\ \A j \in 1..(i - 1) : tried[j] \notin DOMAIN fs]>>
    ELSE <<>>

resolution_step(hit) ==
    IF hit = <<>> THEN istatus' = "err" /\ ierror' = "unresolved_import"
    ELSE IF InSeq(hit[1], stack)
    THEN istatus' = "err" /\ ierror' = "cyclic_import"
    ELSE /\ istatus' = "running"
         /\ stack' = Append(stack, hit[1])
         /\ calls'[Len(calls')].items = files[hit[1]]

\* C19: a relative import target resolves to the first existing file among
\* the including file's directory and then the include paths in their
\* configured order, for each of them the exact path before the path with
\* `.less` (tried only when the target has no extension); when none exists
\* the expansion fails with an evaluation error.
C19_ResolutionOrder ==
    [][ (Expanding /\ IsLessImport(Head(TopCall.items))
                   /\ Head(TopCall.items).path # <<>>)
          => resolution_step(
                first_hit(files,
                          attempts(TopCall.current_dir \o include_paths,
                                   Head(TopCall.items).path[1]))) ]_vars

\* @import "b"; from directory d with include path e, where d/b.less and
\* e/b exist and d/b does not: d/b.less is the file expanded
C19_Witness ==
    /\ request.source = <<ImportBare>>
    /\ request.current_dir = <<DirD>>
    /\ include_paths = <<DirE>>
    /\ DOMAIN files = {FileA, FileB, FileBareEB}
    /\ stack = <<FileB>>

\* C21: compile called with current_dir = None and include_paths empty
\* expands no import and reads no file: the statements reach the evaluator
\* as the parser left them, and the raw line of every @import, also of one
\* that targets a .less file, is emitted at the top of the output.
C21_NoExpansionWithoutDirectories ==
    (request.kind = "source" /\ request.current_dir = <<>>
                             /\ request.include_paths = <<>>) =>
        /\ reads = <<>> /\ cache = EmptyMap /\ stack = <<>> /\ calls = <<>>
        /\ istatus # "err"
        /\ istatus \in {"ok", "evaluating"} => expanded = request.source
        /\ (istatus = "evaluating" /\ status = "ok") =>
              /\ imports = import_raws(request.source)
              /\ imports_lead(import_raws(request.source), css)

\* @import (CSS) "r.css"; @import "b"; @import (CSS) "r.css"; compiled without
\* directories: three lines of output, the second for b.less
C21_Witness ==
    /\ request.kind = "source"
    /\ request.current_dir = <<>> /\ request.include_paths = <<>>
    /\ request.source = <<CssImport, ImportBare, CssImport>>
    /\ istatus = "evaluating" /\ status = "ok"
    /\ ~ImportBare.is_css
    /\ css = <<"@", "i", "m", "p", "o", "r", "t", " ", "\"", "r", ".", "c", "s",
               "s", "\"", ";", "\n",
               "@", "i", "m", "p", "o", "r", "t", " ", "\"", "b", "\"", ";", "\n",
               "@", "i", "m", "p", "o", "r", "t", " ", "\"", "r", ".", "c", "s",
               "s", "\"", ";">>

\* The steps of compile_file, expand_imports and ImportResolver::expand
ExpansionStep ==
    \/ compile_file
    \/ expand_imports
    \/ ExpandOther
    \/ ExpandImport
    \/ ExpandReturn
    \/ ExpandImportsReturn

\* The program runs on: a call in progress takes its next step.
SpecImportFair == SpecImport /\ WF_vars(ExpansionStep)

\* expand_imports has returned, with the expanded list or with an error
ExpansionReturned == istatus \in {"ok", "err", "evaluating"}

\* C24: for every set of files and every import graph among them, cyclic
\* ones included, import expansion terminates with the expanded statement
\* list or with an error, and at no point does the ancestor stack hold the
\* same resolved path twice.
C24_ExpansionTerminates ==
    /\ [](\A i, j \in 1..Len(stack) : stack[i] = stack[j] => i = j)
    /\ <>ExpansionReturned
    /\ [](istatus = "ok" => (ierror = "none" /\ calls = <<>>))

\* a.less imports b.less and b.less imports a.less: compiled from a source
\* importing a, the expansion has ended in the cyclic-import error with both
\* files on the stack
C24_Witness ==
    /\ request.source = <<ImportA>>
    /\ DOMAIN files = {FileA, FileB}
    /\ files[FileA] = <<ImportB>>
    /\ files[FileB] = <<ImportA>>
    /\ istatus = "err"
    /\ ierror = "cyclic_import"
    /\ stack = <<FileA, FileB>>

\* the files load_stylesheet has read in this compile, in order
loaded_files ==
    LET loads == SelectSeq(reads, LAMBDA r : r.by = "load_stylesheet")
    IN  [i \in 1..Len(loads) |-> loads[i].path]

\* C25: within one compile each resolved file is read from the filesystem
\* and parsed at most once, however many times it is imported; every later
\* import of it inlines the statements of the first parse; and the cache
\* starts empty for every compile: what the resolver of a compile holds is
\* exactly what that compile has read.
C25_EachFileReadOnce ==
    (istatus # "start" /\ wants_expansion(request)) =>
        /\ \A i, j \in 1..Len(loaded_files) :
              loaded_files[i] = loaded_files[j] => i = j
        /\ DOMAIN cache = {loaded_files[i] : i \in 1..Len(loaded_files)}
        /\ \A f \in DOMAIN cache : cache[f] = files[f]
        /\ \A i \in 1..Len(stack) :
              /\ stack[i] \in DOMAIN cache
              /\ istatus = "running" =>
                    \E k \in 0..Len(cache[stack[i]]) :
                       calls[i + 1].items
                         = SubSeq(cache[stack[i]], k + 1, Len(cache[stack[i]]))

\* a.less imports b.less twice; compiled a second time, b.less has been read
\* once again and once only, and its statements stand twice in the result
C25_Witness ==
    /\ results # <<>>
    /\ request.source = <<ImportA>>
    /\ DOMAIN files = {FileA, FileB}
    /\ files[FileA] = <<ImportB, ImportB>>
    /\ files[FileB] = <<PathlessImport, VariableDeclaration(Na, V1px)>>
    /\ istatus = "ok"
    /\ loaded_files = <<FileA, FileB>>
    /\ expanded = <<PathlessImport, VariableDeclaration(Na, V1px),
                    PathlessImport, VariableDeclaration(Na, V1px)>>

\* The statement list the expansion of a list owes, written from the rule
\* alone: every statement stays where it is, but for an import that is not
\* CSS and names a file, whose place the owed list of that file takes.
\* anc holds the files being inlined around it; Err when a file is not
\* found or is one of anc.
RECURSIVE inlined(_, _, _)
inlined(statements, dirs, anc) ==
    IF statements = <<>> THEN Ok(<<>>)
    ELSE LET s == Head(statements)
             rest == inlined(Tail(statements), dirs, anc)
             hit == first_hit(files, attempts(dirs, s.path[1]))
             inner == inlined(files[hit[1]],
                              <<parent(hit[1])>> \o request.include_paths,
                              anc \cup {hit[1]})
         IN  IF ~(s.t = "import" /\ ~s.is_css /\ s.path # <<>>)
             THEN IF rest.ok THEN Ok(<<s>> \o rest.val) ELSE rest
             ELSE IF hit = <<>> THEN Err("unresolved_import")
             ELSE IF hit[1] \in anc THEN Err("cyclic_import")
             ELSE IF ~inner.ok THEN inner
             ELSE IF rest.ok THEN Ok(inner.val \o rest.val) ELSE rest

\* what parse_import makes of the text between `@import` and `;`
ImportSpecs ==
    { <<" ", "\"", "a", "\"">>,
      <<" ", "\"", "a", ".", "c", "s", "s", "\"">>,
      <<" ", "\"", "a">>,
      <<" ", "a">>,
      <<" ">>,
      <<" ", "u", "r", "l", "(", "s", ")">>,
      <<" ", "(", "l", "e", "s", "s", ")", " ", "u", "r", "l", "(", "s", ")">>,
      <<" ", "(", "l", "e", "s", "s", ")">>,
      <<" ", "(", "l", "e", "s", "s", ")", " ", "\"", "a">>,
      <<" ", "(", "c", "s", "s", ")", " ", "\"", "a", "\"">>,
      <<" ", "(", "l", "e", "s", "s">> }

HasPathOrIsCss(statement) ==
    statement.t = "import" => (statement.is_css \/ statement.path # <<>>)

\* C28: import expansion drops no statement.  When expand_imports has
\* returned the expanded list, that list is the input list with every
\* statement at its place, except that each import that is not CSS stands
\* replaced by the expanded statements of its file; and no import the parser
\* produces, in the source or in a file, is a non-CSS import without a path.
C28_ExpansionDropsNothing ==
    /\ \A spec \in ImportSpecs :
          parse_import(spec).ok => HasPathOrIsCss(parse_import(spec).val)
    /\ \A i \in 1..Len(request.source) : HasPathOrIsCss(request.source[i])
    /\ \A f \in DOMAIN files :
          \A i \in 1..Len(files[f]) : HasPathOrIsCss(files[f][i])
    /\ (istatus \in {"ok", "evaluating"} /\ wants_expansion(request)) =>
          /\ inlined(request.source,
                     request.current_dir \o request.include_paths, {}).ok
          /\ expanded = inlined(request.source,
                                request.current_dir \o request.include_paths,
                                {}).val

\* a.less is `@import "r.css"; @import "b.less";` and b.less is
\* `@import (less) url(s); @a: 1px;`: the CSS import, the import without a
\* path and the variable stand in the result in that order
C28_Witness ==
    /\ request.source = <<ImportA>>
    /\ DOMAIN files = {FileA, FileB}
    /\ files[FileA] = <<CssImport, ImportB>>
    /\ files[FileB] = <<PathlessImport, VariableDeclaration(Na, V1px)>>
    /\ istatus = "ok"
    /\ expanded = <<CssImport, PathlessImport, VariableDeclaration(Na, V1px)>>

\* x is what is left of sq after some of its first elements
IsSuffix(x, sq) ==
    \E k \in 0..Len(sq) : x = SubSeq(sq, k + 1, Len(sq))

\* The stack against the activations of expand: the first activation is
\* the call made by expand_imports, and the i-th stack entry is the file
\* the (i+1)-th activation expands: that activation runs with the file's
\* directory over what is left of the file's statements.
StackListsActivations ==
    /\ istatus = "running" =>
          /\ Len(stack) = Len(calls) - 1
          /\ \A i \in 1..Len(stack) :
                /\ stack[i] \in DOMAIN files
                /\ calls[i + 1].current_dir = <<parent(stack[i])>>
                /\ IsSuffix(calls[i + 1].items, files[stack[i]])
    /\ (istatus \in {"ok", "evaluating"} /\ wants_expansion(request)) =>
          stack = <<>>

\* A step of the expansion that raises no error pushes one file together
\* with the activation it starts, or pops the last file together with the
\* activation that returns, or leaves the stack alone; the entries below
\* stay as they are.
StackFollowsCalls ==
    (istatus = "running" /\ istatus' \in {"running", "ok"}) =>
        \/ /\ Len(calls') = Len(calls) + 1
           /\ Len(stack') = Len(stack) + 1
           /\ SubSeq(stack', 1, Len(stack)) = stack
        \/ /\ Len(calls') = Len(calls) - 1
           /\ istatus' = "running"
           /\ stack' = SubSeq(stack, 1, Len(stack) - 1)
        \/ /\ Len(calls') = Len(calls) \/ istatus' = "ok"
           /\ stack' = stack

\* C29: while imports are expanded the ancestor stack lists exactly the
\* resolved files whose expansion is in progress, outermost first; an
\* expand call that returns Ok leaves the stack as it was when the call
\* started, and the stack is empty when the top-level call has returned Ok.
C29_StackListsExpansionsInProgress ==
    /\ []StackListsActivations
    /\ [][StackFollowsCalls]_vars

\* a.less is `@import "b.less"; @import "r.css";`: the expansion of b.less
\* has returned its two statements into the expansion of a.less, which
\* goes on with a.less alone on the stack
C29_Witness ==
    /\ request.source = <<ImportA>>
    /\ DOMAIN files = {FileA, FileB}
    /\ files[FileA] = <<ImportB, CssImport>>
    /\ files[FileB] = <<PathlessImport, VariableDeclaration(Na, V1px)>>
    /\ istatus = "running"
    /\ Len(calls) = 2
    /\ TopCall.items = <<CssImport>>
    /\ TopCall.result = <<PathlessImport, VariableDeclaration(Na, V1px)>>
    /\ stack = <<FileA>>

\* Import expansion hands every import of plain CSS on as it is: the step
\* that consumes one appends exactly that statement to the result.
ExpansionKeepsCssImports ==
    [][ (Expanding /\ Head(TopCall.items).t = "import"
                   /\ Head(TopCall.items).is_css)
          => /\ Len(calls') = Len(calls)
             /\ calls'[Len(calls)].result
                  = Append(TopCall.result, Head(TopCall.items)) ]_vars

\* ------------------------------------------------------------------------
\* LessParser::parse (src/src/parser.rs)
\* ------------------------------------------------------------------------

\* where the loop of parse stands after skip_whitespace_and_comments
ParseAt == skip_whitespace_and_comments(psource, ppos)

Parsing == pstatus = "parsing" /\ ~is_eof(psource, ppos)

\* statements.push(...) and continue, or the error leaving through `?`
ParseStatementTo(result) ==
    IF result.ok
    THEN /\ pstatements' = Append(pstatements, result.val)
         /\ ppos' = result.pos
         /\ UNCHANGED <<psource, pstatus, perror>>
    ELSE /\ pstatus' = "err"
         /\ perror' = [message |-> result.err, position |-> result.pos]
         /\ UNCHANGED <<psource, ppos, pstatements>>

ParseVariable ==
    /\ Parsing
    /\ peek_char(psource, ParseAt) = "@"
    /\ lookahead_is_variable_decl(psource, ParseAt)
    /\ ParseStatementTo(parse_variable(psource, ParseAt))
    /\ UNCHANGED <<evalVars, valueVars, selVars, impVars>>

ParseImport ==
    /\ Parsing
    /\ peek_char(psource, ParseAt) = "@"
    /\ ~lookahead_is_variable_decl(psource, ParseAt)
    /\ lookahead_is_import(psource, ParseAt)
    /\ ParseStatementTo(parse_import_statement(psource, ParseAt))
    /\ UNCHANGED <<evalVars, valueVars, selVars, impVars>>

ParseAtRule ==
    /\ Parsing
    /\ peek_char(psource, ParseAt) = "@"
    /\ ~lookahead_is_variable_decl(psource, ParseAt)
    /\ ~lookahead_is_import(psource, ParseAt)
    /\ lookahead_is_block_at_rule(psource, ParseAt)
    /\ ParseStatementTo(parse_at_rule(psource, ParseAt))
    /\ UNCHANGED <<evalVars, valueVars, selVars, impVars>>

ParseRuleSet ==
    /\ Parsing
    /\ ~is_eof(psource, ParseAt)
    /\ ~starts_mixin_name(psource, ParseAt)
    /\ peek_char(psource, ParseAt) = "@" =>
          /\ ~lookahead_is_variable_decl(psource, ParseAt)
          /\ ~lookahead_is_import(psource, ParseAt)
          /\ ~lookahead_is_block_at_rule(psource, ParseAt)
    /\ ParseStatementTo(parse_ruleset(psource, ParseAt))
    /\ UNCHANGED <<evalVars, valueVars, selVars, impVars>>

\* Ok(Stylesheet::new(statements)): the loop condition fails, or the input
\* ends after the whitespace and comments
ParseReturn ==
    /\ pstatus = "parsing"
    /\ is_eof(psource, ppos) \/ is_eof(psource, ParseAt)
    /\ pstatus' = "ok"
    /\ UNCHANGED <<psource, ppos, pstatements, perror>>
    /\ UNCHANGED <<evalVars, valueVars, selVars, impVars>>

\* The sources parsed: five complete sources, every beginning of each of
\* them up to MaxSource characters, and each of them with one closing
\* quote or brace taken out.
MaxSource == 23

\* @a:"x";b{c:"y";d{e:f}}
SourceNested ==
    <<"@", "a", ":", "\"", "x", "\"", ";", "b", "{", "c", ":", "\"", "y",
      "\"", ";", "d", "{", "e", ":", "f", "}", "}">>

\* @m{c:'y';d{e:f}}@a:'x'
SourceAtRule ==
    <<"@", "m", "{", "c", ":", "'", "y", "'", ";", "d", "{", "e", ":", "f",
      "}", "}", "@", "a", ":", "'", "x", "'">>

\* @import "r";b,c{d:@a}
SourceImport ==
    <<"@", "i", "m", "p", "o", "r", "t", " ", "\"", "r", "\"", ";", "b",
      ",", "c", "{", "d", ":", "@", "a", "}">>

\* @a: "x;" ; <line break> b { c : "\"" }
SourceSpaced ==
    <<"@", "a", ":", " ", "\"", "x", ";", "\"", " ", ";", "\n", "b", " ",
      "{", " ", "c", " ", ":", " ", "\"", "\\", "\"", "\"", " ", "}">>

\* b{@c:d;e{@{c}:f}}/*g*/
SourceInterpolated ==
    <<"b", "{", "@", "c", ":", "d", ";", "e", "{", "@", "{", "c", "}", ":",
      "f", "}", "}", "/", "*", "g", "*", "/">>

CompleteSources ==
    {SourceNested, SourceAtRule, SourceImport, SourceSpaced, SourceInterpolated}

Beginnings(c) ==
    {SubSeq(c, 1, n) : n \in 0..(IF Len(c) < MaxSource THEN Len(c) ELSE MaxSource)}

Without(c, i) == SubSeq(c, 1, i - 1) \o SubSeq(c, i + 1, Len(c))

OneCloserLess(c) ==
    {Without(c, i) : i \in {j \in 1..Len(c) : c[j] \in {"\"", "'", "}"}}}

ParseSources ==
    CompleteSources
    \cup UNION {Beginnings(c) \cup OneCloserLess(c) : c \in CompleteSources}

InitParse ==
    /\ EvalIdle
    /\ ValueIdle
    /\ SelIdle
    /\ ImpIdle
    /\ psource \in ParseSources
    /\ ppos = 0
    /\ pstatements = <<>>
    /\ pstatus = "parsing"
    /\ perror = NoParseError

NextParse ==
    \/ ParseVariable
    \/ ParseImport
    \/ ParseAtRule
    \/ ParseRuleSet
    \/ ParseReturn

SpecParse == InitParse /\ [][NextParse]_vars

\* What is still open at the end of a text, read character by character:
\* the quote of a string that was not closed, and the number of `{` outside
\* strings that have no `}`.
RECURSIVE left_open(_, _, _)
left_open(text, quote, depth) ==
    IF text = <<>> THEN [quote |-> quote, depth |-> depth]
    ELSE IF quote # ""
    THEN IF Head(text) = quote THEN left_open(Tail(text), "", depth)
         ELSE IF Head(text) = "\\" /\ Len(text) >= 2
         THEN left_open(Tail(Tail(text)), quote, depth)
         ELSE left_open(Tail(text), quote, depth)
    ELSE IF Head(text) \in {"\"", "'"} THEN left_open(Tail(text), Head(text), depth)
    ELSE IF Head(text) = "{" THEN left_open(Tail(text), quote, depth + 1)
    ELSE IF Head(text) = "}" /\ depth > 0 THEN left_open(Tail(text), quote, depth - 1)
    ELSE left_open(Tail(text), quote, depth)

never_closed(text) ==
    left_open(text, "", 0).quote # "" \/ left_open(text, "", 0).depth > 0

\* C20: parsing a source in which a quoted string or a brace block is never
\* closed ends in a parse error that carries a byte offset of the source,
\* never in a stylesheet; also when the string is in the value of a
\* top-level variable declaration and runs to the end of the input.
C20_UnterminatedIsParseError ==
    (pstatus \in {"ok", "err"} /\ never_closed(psource)) =>
        /\ pstatus = "err"
        /\ perror.position \in 0..Len(psource)

====
